---- MODULE Spec2Model ----
(***************************************************************************)
(* A model of the gateway runtime of hanzoai/bot: the usage reporter, the  *)
(* billing cache and client, the billing gate, the tenant resolver and the *)
(* OpenAI-compatible chat adapter.  Each component has its own             *)
(* specification (SpecReporter, SpecBilling, SpecGate, SpecTenant,         *)
(* SpecChat); there the variables of the components it does not call stay  *)
(* at their initial values.                                                *)
(***************************************************************************)
EXTENDS Integers, Sequences, FiniteSets, TLC

VARIABLES
  \* ---- usage reporter (usage-reporter.ts) ----
  queue,             \* const queue: UsageRecord[]  (records are numbered in report order)
  flushTimer,        \* flushTimer !== null
  timers,            \* the pending setTimeout callbacks of reportUsage: their delays
  currentIamConfig,  \* currentIamConfig !== null
  flushes,           \* invocations of flushUsageQueue suspended at `await fetch`
  nextRecord,        \* number of the next record a caller reports
  shutdownPc,        \* position of shutdownUsageReporter: idle, check, await, done
  \* ---- billing cache, client and gate (iam-billing-client.ts, billing-gate.ts) ----
  now,               \* Date.now()
  subscriptionCache, \* Map<string, CacheEntry<SubscriptionStatus>>
  planCache,         \* Map<string, CacheEntry<CommercePlan | null>>
  balanceCache,      \* Map<string, CacheEntry<number>>
  variant,           \* which billing gate the build holds: "balance" or "subscriptionOnly"
  callers,           \* the calls in progress: per caller, its arguments and its position
  calls,             \* number of calls made so far
  \* ---- identity and tenant resolver (auth-iam.ts, tenant-context.ts) ----
  connection,        \* the HTTP request or WebSocket connection being admitted
  \* ---- OpenAI-compatible chat adapter (openai-http.ts) ----
  chat,              \* one POST /v1/chat/completions: the handler's locals and its response
  \* ---- origin policy (origin-check.ts) and OAuth proxy (iam-oauth-http.ts) ----
  runtimeAllowedOrigins, \* const runtimeAllowedOrigins = new Set<string>()
  browser,           \* the last browser request decided: its inputs and the outcome
  originCalls,       \* history: the calls made on the runtime allow-set, in order
  \* ---- connection authorizer (auth.ts, http-auth-helpers.ts) ----
  authFailures,      \* the rate limiter's count of failed attempts of the source address
  authCall,          \* the last call of authorizeGatewayConnect: its arguments and result
  endpoint,          \* the request in handleOpenAiHttpRequest's POST-JSON middleware
  \* ---- tunnel supervisor (gateway tunnel module) ----
  tunnel,            \* one call of startGatewayTunnel and the child it supervises
  \* ---- tenant-scoped paths (config/tenant-paths.ts) ----
  paths              \* the last call of sanitizeSlug or resolveTenantStateDir

reporterVars == <<queue, flushTimer, timers, currentIamConfig, flushes, nextRecord, shutdownPc>>

billingVars == <<now, subscriptionCache, planCache, balanceCache, variant, callers, calls>>

tenantVars == <<connection>>

chatVars == <<chat>>

originVars == <<runtimeAllowedOrigins, browser, originCalls>>

\* the components at the edge of the gateway, which call none of the others
authVars == <<authFailures, authCall, endpoint>>

tunnelVars == <<tunnel>>

pathVars == <<paths>>

edgeVars == <<originVars, authVars, tunnelVars, pathVars>>

\* what a step of one component leaves alone
notReporter == <<billingVars, tenantVars, chatVars, edgeVars>>
notBilling == <<reporterVars, tenantVars, chatVars, edgeVars>>
notTenant == <<reporterVars, billingVars, chatVars, edgeVars>>
notOrigin == <<reporterVars, billingVars, tenantVars, chatVars, authVars, tunnelVars, pathVars,
               originCalls>>
notRuntimeOrigins == <<reporterVars, billingVars, tenantVars, chatVars, authVars, tunnelVars,
                       pathVars>>
notAuth == <<reporterVars, billingVars, tenantVars, chatVars, originVars, tunnelVars, pathVars>>
notTunnel == <<reporterVars, billingVars, tenantVars, chatVars, originVars, authVars, pathVars>>
notPaths == <<reporterVars, billingVars, tenantVars, chatVars, originVars, authVars, tunnelVars>>

vars == <<reporterVars, billingVars, tenantVars, chatVars, edgeVars>>

----------------------------------------------------------------------------
(* Helpers *)

Min(a, b) == IF a <= b THEN a ELSE b

Range(s) == {s[i] : i \in 1..Len(s)}

\* the value `undefined`
Undefined == "<undefined>"

\* a ?? b
Coalesce(a, b) == IF a # Undefined THEN a ELSE b

\* filter(Boolean) on strings keeps the non-empty ones
HasText(t) == t # ""

\* array.includes(x)
Includes(array, x) == \E i \in 1..Len(array) : array[i] = x

----------------------------------------------------------------------------
(* Identity and tenant resolver *)

\* claims.groups holds at most MaxGroups entries
MaxGroups == 2

Orgs == {"a", "b"}
Owners == {"", "a", "c"}
RequestedOrgIds == {Undefined, "", "a", "b", "c"}
GroupsClaims == UNION {[1..n -> Orgs] : n \in 0..MaxGroups}

NoTenant == [present |-> FALSE, orgId |-> "", userId |-> ""]
NoIamResult == [ok |-> FALSE, userId |-> "", owner |-> "", orgIds |-> <<>>,
                currentOrgId |-> Undefined]

\* orgIds[0]
First(array) == IF Len(array) > 0 THEN array[1] ELSE Undefined

\* validateIamToken: the org ids of a verified token
OrgIdsOf(groups, owner) ==
  IF owner # "" /\ ~Includes(groups, owner) THEN Append(groups, owner) ELSE groups

\* validateIamToken(token, config), given what the SDK's validateToken found
validateIamToken(sdkOk, groups, owner) ==
  IF ~sdkOk THEN NoIamResult
  ELSE [ok |-> TRUE, userId |-> "u", owner |-> owner, orgIds |-> OrgIdsOf(groups, owner),
        currentOrgId |-> First(OrgIdsOf(groups, owner))]

\* resolveTenantContext({iamResult, requestedTenant})
resolveTenantContext(iamResult, requestedOrgId) ==
  LET orgId == Coalesce(requestedOrgId,
                        Coalesce(iamResult.currentOrgId, First(iamResult.orgIds)))
  IN IF orgId = Undefined \/ orgId = ""
       THEN NoTenant
       ELSE [present |-> TRUE, orgId |-> orgId, userId |-> iamResult.userId]

\* validateTenantAccess({iamResult, tenant}): the error reason, or Undefined for null
validateTenantAccessOfAnyOrg(iamResult, tenant) == Undefined
validateTenantAccess(iamResult, tenant) ==
  IF ~Includes(iamResult.orgIds, tenant.orgId) THEN "tenant_org_not_member" ELSE Undefined

NoConnection == [pc |-> "idle", path |-> "", requested |-> Undefined, iamResult |-> NoIamResult,
                 resolved |-> NoTenant, tenant |-> NoTenant, reason |-> "",
                 scopedOrg |-> Undefined]

\* POST /v1/chat/completions arrives; the HTTP path has no connect parameters
HttpRequestArrives ==
  /\ connection.pc = "idle"
  /\ connection' = [NoConnection EXCEPT !.pc = "auth", !.path = "http"]

\* a WebSocket connect frame arrives with params.tenant.orgId
WsConnectArrives ==
  /\ connection.pc = "idle"
  /\ \E requested \in RequestedOrgIds :
       connection' = [NoConnection EXCEPT !.pc = "auth", !.path = "ws", !.requested = requested]

\* authorizeGatewayConnect rejects the credentials
AuthFails ==
  /\ connection.pc = "auth"
  /\ connection' = [connection EXCEPT !.pc = "rejected", !.reason = "unauthorized"]

\* authorizeGatewayConnect accepts without an identity (token or password mode)
AuthPassesWithoutIdentity ==
  /\ connection.pc = "auth"
  /\ connection' = [connection EXCEPT !.pc = "accepted"]

\* handleOpenAiHttpRequest: auth passed in identity mode; the tenant is resolved
HttpAuthPasses ==
  /\ connection.pc = "auth" /\ connection.path = "http"
  /\ \E groups \in GroupsClaims, owner \in Owners :
       LET iamResult == validateIamToken(TRUE, groups, owner)
           tenant == resolveTenantContext(iamResult, Undefined)
       IN connection' = [connection EXCEPT !.pc = "accepted", !.iamResult = iamResult,
                                           !.resolved = tenant, !.tenant = tenant]

\* the connect handler: auth passed in identity mode; the tenant is resolved
\* from the connect parameters and its membership validated
WsAuthPasses ==
  /\ connection.pc = "auth" /\ connection.path = "ws"
  /\ \E groups \in GroupsClaims, owner \in Owners :
       LET iamResult == validateIamToken(TRUE, groups, owner)
           tenant == resolveTenantContext(iamResult, connection.requested)
           reason == IF tenant.present THEN validateTenantAccess(iamResult, tenant)
                                       ELSE Undefined
       IN connection' =
            IF reason # Undefined
              THEN [connection EXCEPT !.pc = "rejected", !.iamResult = iamResult,
                                      !.resolved = tenant, !.reason = reason]
              ELSE [connection EXCEPT !.pc = "accepted", !.iamResult = iamResult,
                                      !.resolved = tenant, !.tenant = tenant]

\* the admitted request or connection scopes billing and state by its tenant
TenantScopes ==
  /\ connection.pc = "accepted"
  /\ connection' = [connection EXCEPT !.pc = "serving",
                      !.scopedOrg = IF connection.tenant.present
                                      THEN connection.tenant.orgId ELSE Undefined]

ConnectionEnds ==
  /\ connection.pc \in {"rejected", "serving"}
  /\ connection' = NoConnection

TenantIdle == connection = NoConnection

InitTenant == connection = NoConnection

----------------------------------------------------------------------------
(* Billing cache and client *)

CACHE_TTL_MS == 60000

\* The clock advances in steps of one TTL, MaxTicks times; a fetch settles
\* within its 10 s deadline, which is below this resolution.  The client is
\* called MaxCalls times by up to two concurrent callers, the gate
\* MaxGateCalls times by one.
MaxTicks == 2
MaxCalls == 3
MaxGateCalls == 2

Callers == {"c1", "c2"}
GateCallers == {"c1"}
NoToken == Undefined
Tokens == {NoToken, ":"}
\* the (identifier, token) pairs the client is called with
Lookups == {<<"a", NoToken>>, <<"a:", NoToken>>, <<"a", ":">>}
PlanIds == {"p"}
Tenants == {[present |-> TRUE, orgId |-> "a", userId |-> "a:"],
            [present |-> TRUE, orgId |-> "a:", userId |-> ""]}

\* what the commerce back end may answer
BalanceOutcomes == {[ok |-> TRUE, available |-> 0], [ok |-> TRUE, available |-> 250],
                    [ok |-> FALSE, available |-> 0]}
SubscriptionsOutcomes == {"fail", "none", "inactive", "active", "activeWithPlan"}
PlanOutcomes == {"200", "404", "500", "fail"}

EmptyMap == [k \in {} |-> 0]

\* token ?? ""
TokenOrEmpty(tok) == IF tok = NoToken THEN "" ELSE tok

\* const cacheKey = `${tenant.orgId}:${token ?? ""}`
SubscriptionKey(orgId, tok) == orgId \o ":" \o TokenOrEmpty(tok)

\* const cacheKey = `${planId}:${token ?? ""}`
PlanKey(planId, tok) == planId \o ":" \o TokenOrEmpty(tok)

\* const cacheKey = `balance:${userId}:${token ?? ""}`
BalanceKey(userId, tok) == "balance:" \o userId \o ":" \o TokenOrEmpty(tok)

\* cached(map, key): the entry is there and `Date.now() > entry.expiresAt` is false
Hit(map, key) == key \in DOMAIN map /\ ~(now > map[key].expiresAt)

\* cached(map, key): the map after the lookup (a stale entry is deleted)
AfterRead(map, key) ==
  IF key \in DOMAIN map /\ now > map[key].expiresAt
    THEN [k \in DOMAIN map \ {key} |-> map[k]]
    ELSE map

\* setCached(map, key, value)
setCached(map, key, value) ==
  [k \in DOMAIN map \cup {key} |->
     IF k = key THEN [value |-> value, expiresAt |-> now + CACHE_TTL_MS] ELSE map[k]]

\* A value carries, beside what the code stores, the (identifier, token) it
\* was fetched for and the time the back end answered.
NoValue == [none |-> TRUE]
NoPlan == [null |-> TRUE, for |-> <<"", NoToken>>, at |-> -1, status |-> ""]
NoResult == [kind |-> "none", reason |-> "", value |-> NoValue, fromCache |-> FALSE, at |-> 0]
Allowed == [NoResult EXCEPT !.kind = "allowed"]
Denied(reason) == [NoResult EXCEPT !.kind = "denied", !.reason = reason]
Threw == [NoResult EXCEPT !.kind = "threw"]
Returned(v, fromCache) ==
  [NoResult EXCEPT !.kind = "value", !.value = v, !.fromCache = fromCache, !.at = now]

Idle == [op |-> "idle", pc |-> "idle", cfg |-> FALSE, tenant |-> NoTenant, id |-> "",
         tok |-> NoToken, planId |-> "", avail |-> 0, log |-> <<>>, result |-> NoResult]

Bundle(c) == [c |-> c, sub |-> subscriptionCache, plan |-> planCache, bal |-> balanceCache]

Done(B, res) == [B EXCEPT !.c.pc = "done", !.c.result = res]

\* the gate's commerce calls so far: what was called and what came back
Logged(B, fn, ok, available, active) ==
  [B EXCEPT !.c.log = Append(@, [fn |-> fn, ok |-> ok, available |-> available,
                                 active |-> active])]

\* const userId = params.tenant.userId || params.tenant.orgId
BalanceId(c) ==
  IF c.op = "gate"
    THEN IF c.tenant.userId # "" THEN c.tenant.userId ELSE c.tenant.orgId
    ELSE c.id

SubscriptionId(c) == IF c.op = "gate" THEN c.tenant.orgId ELSE c.id

----------------------------------------------------------------------------
(* Billing gate: checkBillingAllowance *)

REASON_UNAVAILABLE == "Billing service unavailable"
REASON_INSUFFICIENT == "Insufficient funds"
REASON_NOT_ACTIVE == "Subscription is not active"
REASON_NO_SUBSCRIPTION == "No active subscription found"

\* if (available > 0) return { allowed: true }
BalanceAllowsAtZero(available) == available >= 0
BalanceAllows(available) == available > 0

\* catch (err) of the gate that checks the prepaid balance
GateCatchBalance == Denied(REASON_UNAVAILABLE)

\* catch (err) of the subscription-only gate
GateCatchSubscriptionOnly == Allowed

GateCatch == IF variant = "balance" THEN GateCatchBalance ELSE GateCatchSubscriptionOnly

\* the gate's decision once getSubscriptionStatus has returned or thrown
GateAfterSubscription(B, ok, status) ==
  LET B1 == Logged(B, "getSubscriptionStatus", ok, 0, ok /\ status.active) IN
    IF ~ok THEN Done(B1, GateCatch)
    ELSE IF status.active THEN Done(B1, Allowed)
    ELSE IF variant = "balance" THEN Done(B1, Denied(REASON_INSUFFICIENT))
    ELSE Done(B1, Denied(IF status.hasSubscription THEN REASON_NOT_ACTIVE
                                                    ELSE REASON_NO_SUBSCRIPTION))

----------------------------------------------------------------------------
(* Billing client: getSubscriptionStatus, getPlan, getBalance *)

\* getSubscriptionStatus returns or throws
SubscriptionReturn(B, ok, status, fromCache) ==
  IF B.c.op = "gate"
    THEN GateAfterSubscription(B, ok, status)
    ELSE Done(B, IF ok THEN Returned(status, fromCache) ELSE Threw)

\* const status = {active, subscription, plan}; setCached(...); return status
SubscriptionFinish(B, active, hasSubscription, plan) ==
  LET key == SubscriptionKey(SubscriptionId(B.c), B.c.tok)
      status == [active |-> active, hasSubscription |-> hasSubscription, plan |-> plan,
                 for |-> <<SubscriptionId(B.c), B.c.tok>>, at |-> now]
  IN SubscriptionReturn([B EXCEPT !.sub = setCached(B.sub, key, status)],
                        TRUE, status, FALSE)

\* getPlan returns or throws
PlanReturn(B, ok, plan, fromCache) ==
  IF B.c.op = "getPlan"
    THEN Done(B, IF ok THEN Returned(plan, fromCache) ELSE Threw)
    ELSE IF ok THEN SubscriptionFinish(B, TRUE, TRUE, plan)
         ELSE SubscriptionReturn(B, FALSE, NoValue, FALSE)

\* getPlan up to its await
PlanStart(B) ==
  LET key == PlanKey(B.c.planId, B.c.tok) IN
    IF Hit(B.plan, key)
      THEN PlanReturn(B, TRUE, B.plan[key].value, TRUE)
      ELSE [B EXCEPT !.plan = AfterRead(B.plan, key), !.c.pc = "plan"]

\* getPlan after `await fetch`
PlanFetched(B, outcome) ==
  LET key == PlanKey(B.c.planId, B.c.tok)
      plan == [null |-> outcome # "200", for |-> <<B.c.planId, B.c.tok>>, at |-> now,
               status |-> outcome]
  IN IF outcome = "fail"
       THEN PlanReturn(B, FALSE, NoPlan, FALSE)
       ELSE PlanReturn([B EXCEPT !.plan = setCached(B.plan, key, plan)], TRUE, plan, FALSE)

\* getSubscriptionStatus up to its await
SubscriptionStart(B) ==
  LET key == SubscriptionKey(SubscriptionId(B.c), B.c.tok) IN
    IF Hit(B.sub, key)
      THEN SubscriptionReturn(B, TRUE, B.sub[key].value, TRUE)
      ELSE [B EXCEPT !.sub = AfterRead(B.sub, key), !.c.pc = "subscriptions"]

\* getSubscriptionStatus after `await fetch`
SubscriptionsFetched(B, outcome, planId) ==
  CASE outcome = "fail" -> SubscriptionReturn(B, FALSE, NoValue, FALSE)
    [] outcome = "none" -> SubscriptionFinish(B, FALSE, FALSE, NoPlan)
    \* activeSub is undefined: `subscription: activeSub ?? null`; the earlier
    \* client passes on the subscription the SDK found
    [] outcome = "inactive" -> SubscriptionFinish(B, FALSE, variant = "subscriptionOnly", NoPlan)
    [] outcome = "active" -> SubscriptionFinish(B, TRUE, TRUE, NoPlan)
    [] outcome = "activeWithPlan" -> PlanStart([B EXCEPT !.c.planId = planId])

\* getBalance returns or throws; in the gate, `if (available > 0)` follows
BalanceReturn(B, ok, balance, fromCache) ==
  IF B.c.op = "getBalance"
    THEN Done(B, IF ok THEN Returned(balance, fromCache) ELSE Threw)
    ELSE LET B1 == Logged(B, "getBalance", ok, IF ok THEN balance.available ELSE 0, FALSE) IN
           IF ~ok THEN Done(B1, GateCatch)
           ELSE IF BalanceAllows(balance.available) THEN Done(B1, Allowed)
           ELSE SubscriptionStart([B1 EXCEPT !.c.avail = balance.available])

\* getBalance up to its await
BalanceStart(B) ==
  LET key == BalanceKey(BalanceId(B.c), B.c.tok) IN
    IF Hit(B.bal, key)
      THEN BalanceReturn(B, TRUE, B.bal[key].value, TRUE)
      ELSE [B EXCEPT !.bal = AfterRead(B.bal, key), !.c.pc = "balance"]

\* getBalance after `await fetch`
BalanceFetched(B, outcome) ==
  LET key == BalanceKey(BalanceId(B.c), B.c.tok)
      balance == [available |-> outcome.available,
                  for |-> <<BalanceId(B.c), B.c.tok>>, at |-> now]
  IN IF outcome.ok
       THEN BalanceReturn([B EXCEPT !.bal = setCached(B.bal, key, balance)],
                          TRUE, balance, FALSE)
       ELSE BalanceReturn(B, FALSE, NoValue, FALSE)

\* checkBillingAllowance up to its first await
GateStart(B) ==
  IF ~B.c.cfg \/ ~B.c.tenant.present THEN Done(B, Allowed)
  ELSE IF variant = "balance" THEN BalanceStart(B)
  ELSE SubscriptionStart(B)

----------------------------------------------------------------------------
(* Billing: the calls and the steps of the event loop *)

Apply(p, B) ==
  /\ callers' = [callers EXCEPT ![p] = B.c]
  /\ subscriptionCache' = B.sub
  /\ planCache' = B.plan
  /\ balanceCache' = B.bal
  /\ UNCHANGED <<now, variant>>

\* A result is handed to its caller before anything else runs.
NoneDone == \A q \in DOMAIN callers : callers[q].pc # "done"

\* A call takes the first free slot.
CanCall(p) ==
  /\ NoneDone
  /\ callers[p].pc = "idle"
  /\ p = "c2" => callers["c1"].pc # "idle"
  /\ calls < (IF DOMAIN callers = GateCallers THEN MaxGateCalls ELSE MaxCalls)

\* checkBillingAllowance({iamConfig, tenant, token})
CallGate(p) ==
  /\ CanCall(p)
  /\ calls' = calls + 1
  /\ \E cfg \in BOOLEAN, tenant \in Tenants \cup {NoTenant}, tok \in Tokens :
       Apply(p, GateStart(Bundle([Idle EXCEPT !.op = "gate", !.cfg = cfg,
                                               !.tenant = tenant, !.tok = tok])))

\* getBalance(cfg, userId, token)
CallGetBalance(p) ==
  /\ CanCall(p) /\ variant = "balance"
  /\ calls' = calls + 1
  /\ \E l \in Lookups :
       Apply(p, BalanceStart(Bundle([Idle EXCEPT !.op = "getBalance", !.id = l[1], !.tok = l[2]])))

\* getSubscriptionStatus(cfg, tenant, token)
CallGetSubscriptionStatus(p) ==
  /\ CanCall(p) /\ variant = "balance"
  /\ calls' = calls + 1
  /\ \E l \in Lookups :
       Apply(p, SubscriptionStart(Bundle([Idle EXCEPT !.op = "getSubscriptionStatus",
                                                    !.id = l[1], !.tok = l[2]])))

\* getPlan(cfg, planId, token)
CallGetPlan(p) ==
  /\ CanCall(p) /\ variant = "balance"
  /\ calls' = calls + 1
  /\ \E id \in PlanIds, tok \in Tokens :
       Apply(p, PlanStart(Bundle([Idle EXCEPT !.op = "getPlan", !.id = id,
                                                !.planId = id, !.tok = tok])))

BalanceSettles(p) ==
  /\ NoneDone
  /\ callers[p].pc = "balance"
  /\ \E o \in BalanceOutcomes : Apply(p, BalanceFetched(Bundle(callers[p]), o))
  /\ UNCHANGED calls

SubscriptionsSettle(p) ==
  /\ NoneDone
  /\ callers[p].pc = "subscriptions"
  /\ \E o \in SubscriptionsOutcomes, planId \in PlanIds :
       /\ variant = "subscriptionOnly" => o # "activeWithPlan"
       /\ Apply(p, SubscriptionsFetched(Bundle(callers[p]), o, planId))
  /\ UNCHANGED calls

PlanSettles(p) ==
  /\ NoneDone
  /\ callers[p].pc = "plan"
  /\ \E o \in PlanOutcomes : Apply(p, PlanFetched(Bundle(callers[p]), o))
  /\ UNCHANGED calls

\* the caller has its result
Return(p) ==
  /\ callers[p].pc = "done"
  /\ callers' = [callers EXCEPT ![p] = Idle]
  /\ UNCHANGED <<now, subscriptionCache, planCache, balanceCache, variant, calls>>

Tick ==
  /\ now < MaxTicks * CACHE_TTL_MS
  /\ \A p \in DOMAIN callers : callers[p].pc = "idle"
  /\ now' = now + CACHE_TTL_MS
  /\ UNCHANGED <<subscriptionCache, planCache, balanceCache, variant, callers, calls>>

BillingIdle ==
  /\ now = 0
  /\ subscriptionCache = EmptyMap
  /\ planCache = EmptyMap
  /\ balanceCache = EmptyMap
  /\ variant = "balance"
  /\ callers = [p \in Callers |-> Idle]
  /\ calls = 0

InitBilling ==
  /\ now = 0
  /\ subscriptionCache = EmptyMap
  /\ planCache = EmptyMap
  /\ balanceCache = EmptyMap
  /\ variant = "balance"
  /\ callers = [p \in Callers |-> Idle]
  /\ calls = 0

InitGate ==
  /\ now = 0
  /\ subscriptionCache = EmptyMap
  /\ planCache = EmptyMap
  /\ balanceCache = EmptyMap
  /\ variant \in {"balance", "subscriptionOnly"}
  /\ callers = [p \in GateCallers |-> Idle]
  /\ calls = 0

----------------------------------------------------------------------------
(* Usage reporter *)

MAX_BATCH_SIZE == 50
FLUSH_INTERVAL_MS == 5000

\* The reporter is observed from its initial state, or from the state in which
\* InitBacklog records (numbered 1..InitBacklog) were reported and no timer has
\* fired yet; from there on MaxReports further records are reported, numbered
\* from InitBacklog + 1.
InitBacklog == 48
MaxReports == 4

\* queue.splice(0, MAX_BATCH_SIZE): the removed elements ...
TakeAll(q) == q
TakeBatch(q) == SubSeq(q, 1, Min(MAX_BATCH_SIZE, Len(q)))

\* ... and what splice leaves in the queue
RestAfterSplice(q) == SubSeq(q, Min(MAX_BATCH_SIZE, Len(q)) + 1, Len(q))

\* if (queue.length === 0 || !currentIamConfig) return;
FlushReturnsEarly(q) == Len(q) = 0 \/ ~currentIamConfig

\* if (flushTimer) { clearTimeout(flushTimer); flushTimer = null; }  The handle
\* names the timer armed last.
ClearTimer(timer, pending) ==
  IF timer THEN SubSeq(pending, 1, Len(pending) - 1) ELSE pending

\* a pending timer has fired: it is no longer pending
Fired(pending, i) == SubSeq(pending, 1, i - 1) \o SubSeq(pending, i + 1, Len(pending))

\* The part of flushUsageQueue that runs before its first await, on queue q:
\* the timer is cancelled, a batch is spliced off and the POST of its first
\* record is issued.  `awaited` says whether shutdownUsageReporter awaits it.
\* It is entered with the timer handle `timer` and the pending timers `pending`.
FlushFrom(q, timer, pending, awaited) ==
  /\ flushTimer' = FALSE
  /\ timers' = ClearTimer(timer, pending)
  /\ IF FlushReturnsEarly(q)
       THEN /\ queue' = q
            /\ UNCHANGED flushes
       ELSE /\ queue' = RestAfterSplice(q)
            /\ flushes' = flushes \cup
                 {[batch |-> TakeBatch(q), idx |-> 1, awaited |-> awaited,
                   before |-> Len(q)]}

flushUsageQueue(q, awaited) == FlushFrom(q, flushTimer, timers, awaited)

\* if (!flushTimer)
ArmsTimerAlways(timer) == TRUE
ArmsTimer(timer) == ~timer

\* reportUsage(record)
reportUsage ==
  /\ nextRecord <= InitBacklog + MaxReports
  /\ nextRecord' = nextRecord + 1
  /\ LET q == Append(queue, nextRecord) IN
       IF Len(q) >= MAX_BATCH_SIZE
         THEN flushUsageQueue(q, FALSE)
         ELSE /\ queue' = q
              /\ IF ArmsTimer(flushTimer)
                   THEN /\ flushTimer' = TRUE
                        /\ timers' = Append(timers, FLUSH_INTERVAL_MS)
                   ELSE UNCHANGED <<flushTimer, timers>>
              /\ UNCHANGED flushes
  /\ UNCHANGED <<currentIamConfig, shutdownPc>>

\* the setTimeout callback of reportUsage
FlushTimerFires ==
  /\ \E i \in 1..Len(timers) : FlushFrom(queue, FALSE, Fired(timers, i), FALSE)
  /\ UNCHANGED <<currentIamConfig, nextRecord, shutdownPc>>

\* a direct call of the exported flushUsageQueue
FlushCalled ==
  /\ flushUsageQueue(queue, FALSE)
  /\ UNCHANGED <<currentIamConfig, nextRecord, shutdownPc>>

\* configureUsageReporter(cfg)
configureUsageReporter ==
  /\ ~currentIamConfig
  /\ currentIamConfig' = TRUE
  /\ UNCHANGED <<queue, flushTimer, timers, flushes, nextRecord, shutdownPc>>

\* for (const record of batch) { ... await fetch(...) ... }
PostResolvesSkips(f) ==
  /\ f \in flushes
  /\ IF f.idx + 1 < Len(f.batch)
       THEN flushes' = (flushes \ {f}) \cup {[f EXCEPT !.idx = f.idx + 2]}
       ELSE flushes' = flushes \ {f}
  /\ UNCHANGED <<queue, flushTimer, timers, currentIamConfig, nextRecord, shutdownPc>>

\* `await fetch(...)` of flush f resolves (whatever the HTTP status): the loop
\* issues the POST of the next record, or the flush returns.
PostResolves(f) ==
  /\ f \in flushes
  /\ IF f.idx < Len(f.batch)
       THEN flushes' = (flushes \ {f}) \cup {[f EXCEPT !.idx = f.idx + 1]}
       ELSE flushes' = flushes \ {f}
  /\ UNCHANGED <<queue, flushTimer, timers, currentIamConfig, nextRecord, shutdownPc>>

\* catch (err) { log.warn(...) }: the queue is left as it is
QueueAfterCatchRequeues(q, batch) == batch \o q
QueueAfterCatch(q, batch) == q

\* `await fetch(...)` of flush f rejects (network error, 10 s abort): the catch
\* logs and the batch is dropped.
PostRejects(f) ==
  /\ f \in flushes
  /\ flushes' = flushes \ {f}
  /\ queue' = QueueAfterCatch(queue, f.batch)
  /\ UNCHANGED <<flushTimer, timers, currentIamConfig, nextRecord, shutdownPc>>

\* shutdownUsageReporter is called
ShutdownCalled ==
  /\ shutdownPc = "idle"
  /\ shutdownPc' = "check"
  /\ UNCHANGED <<queue, flushTimer, timers, currentIamConfig, flushes, nextRecord>>

\* while (queue.length > 0) { await flushUsageQueue(); }
ShutdownLoop ==
  /\ shutdownPc = "check"
  /\ IF Len(queue) > 0
       THEN /\ flushUsageQueue(queue, TRUE)
            /\ shutdownPc' = "await"
       ELSE /\ shutdownPc' = "done"
            /\ UNCHANGED <<queue, flushTimer, timers, flushes>>
  /\ UNCHANGED <<currentIamConfig, nextRecord>>

\* the awaited flushUsageQueue promise has resolved
ShutdownResumes ==
  /\ shutdownPc = "await"
  /\ ~\E f \in flushes : f.awaited
  /\ shutdownPc' = "check"
  /\ UNCHANGED <<queue, flushTimer, timers, currentIamConfig, flushes, nextRecord>>

InitReporter ==
  /\ \E k \in {0, InitBacklog} :
       /\ queue = [i \in 1..k |-> i]
       /\ flushTimer = (k > 0)
       /\ timers = IF k > 0 THEN <<FLUSH_INTERVAL_MS>> ELSE <<>>
  /\ nextRecord = InitBacklog + 1
  /\ currentIamConfig \in BOOLEAN
  /\ flushes = {}
  /\ shutdownPc = "idle"

----------------------------------------------------------------------------
(* OpenAI-compatible chat adapter: handleOpenAiHttpRequest *)

\* the run emits at most MaxDeltas assistant events
MaxDeltas == 2

\* meta.agentMeta.usage of the run's result
NoUsage == [defined |-> FALSE, input |-> 0, output |-> 0]
Usages == {NoUsage, [defined |-> TRUE, input |-> 0, output |-> 0],
           [defined |-> TRUE, input |-> 10, output |-> 5]}

NoChat == [pc |-> "idle", stream |-> FALSE, iamConfig |-> FALSE, tenant |-> NoTenant,
           hasPrompt |-> FALSE, accepted |-> FALSE, status |-> 0,
           wroteRole |-> FALSE, sawAssistantDelta |-> FALSE, closed |-> FALSE,
           subscribed |-> FALSE, frames |-> <<>>, ended |-> FALSE,
           returned |-> FALSE, usage |-> NoUsage, abandoned |-> FALSE, deltas |-> 0,
           billing |-> NoResult, errorType |-> "", message |-> "", runId |-> FALSE,
           emitted |-> <<>>, disconnected |-> FALSE, lifecycleErrors |-> 0,
           messages |-> <<>>, payloads |-> <<>>, content |-> "", finish_reason |-> ""]

\* The frames of the event stream: the chunk with delta {role: "assistant"},
\* a chunk with delta {content} and its finish_reason, and "data: [DONE]".
RoleChunk == [kind |-> "role", content |-> "", finish_reason |-> "absent"]
ContentChunk(content) == [kind |-> "content", content |-> content, finish_reason |-> "null"]
ErrorChunk == [kind |-> "content", content |-> "Error: internal error", finish_reason |-> "stop"]
DoneFrame == [kind |-> "[DONE]", content |-> "", finish_reason |-> "absent"]

\* the texts of the assistant events of a run
DeltaTexts == {"", "Hel", "lo"}

\* writeSse(res, data)
writeSse(c, frame) == [c EXCEPT !.frames = Append(@, frame)]

\* writeDone(res)
writeDone(c) == writeSse(c, DoneFrame)

\* sendJson(res, status, body)
sendJson(c, status) == [c EXCEPT !.status = status, !.ended = TRUE, !.pc = "done"]

\* closed = true; unsubscribe(); writeDone(res); res.end()
TerminateKeepsSubscription(c) ==
  [writeDone([c EXCEPT !.closed = TRUE]) EXCEPT !.ended = TRUE]
Terminate(c) ==
  [writeDone([c EXCEPT !.closed = TRUE, !.subscribed = FALSE]) EXCEPT !.ended = TRUE]

\* the subscriber, on an event of stream "assistant"
AssistantHandlerRoleEachTime(c, content) ==
  IF c.closed \/ content = "" THEN c
  ELSE writeSse([writeSse(c, RoleChunk) EXCEPT !.wroteRole = TRUE, !.sawAssistantDelta = TRUE],
                ContentChunk(content))
AssistantHandler(c, content) ==
  IF c.closed \/ content = "" THEN c
  ELSE LET c1 == IF ~c.wroteRole THEN writeSse([c EXCEPT !.wroteRole = TRUE], RoleChunk) ELSE c
       IN writeSse([c1 EXCEPT !.sawAssistantDelta = TRUE], ContentChunk(content))

\* the subscriber, on an event of stream "lifecycle"
LifecycleHandlerStaysOpen(c, phase) ==
  IF c.closed THEN c
  ELSE IF phase \in {"end", "error"} THEN writeDone(c)
  ELSE c
LifecycleHandler(c, phase) ==
  IF c.closed THEN c
  ELSE IF phase \in {"end", "error"} THEN Terminate(c)
  ELSE c

\* emitAgentEvent({runId, stream: "lifecycle", data: {phase}}): the bus calls
\* the live subscribers of the run
emitAgentEvent(c, phase) == IF c.subscribed THEN LifecycleHandler(c, phase) ELSE c

\* req.on("close", ...)
CloseHandlerOnlyUnsubscribes(c) ==
  [c EXCEPT !.subscribed = FALSE, !.abandoned = @ \/ ~c.closed, !.disconnected = TRUE]
CloseHandler(c) ==
  [c EXCEPT !.closed = TRUE, !.subscribed = FALSE, !.abandoned = @ \/ ~c.closed,
            !.disconnected = TRUE]

\* if (tenant && (inputTokens > 0 || outputTokens > 0))
ShouldReport(c, usage) == c.tenant.present /\ (usage.input > 0 \/ usage.output > 0)

\* if (tenant && sAgentUsage && ((sAgentUsage.input ?? 0) > 0 || (sAgentUsage.output ?? 0) > 0))
StreamShouldReport(c, usage) ==
  c.tenant.present /\ usage.defined /\ (usage.input > 0 \/ usage.output > 0)

\* result.payloads of a run: the texts, "" for a payload without a text
Payloads == {<<>>, <<"">>, <<"a">>, <<"a", "", "b">>}

\* texts.filter(Boolean).join("\n\n")
RECURSIVE Join(_)
Join(texts) ==
  IF texts = <<>> THEN ""
  ELSE IF Head(texts) = "" THEN Join(Tail(texts))
  ELSE IF Join(Tail(texts)) = "" THEN Head(texts)
  ELSE Head(texts) \o "\n\n" \o Join(Tail(texts))

\* Array.isArray(payloads) && payloads.length > 0 ? ... : "No response from Hanzo Bot."
JoinPayloads(payloads) ==
  IF Len(payloads) > 0 THEN Join(payloads) ELSE "No response from Hanzo Bot."

\* if (!sawAssistantDelta) { role chunk unless written; content chunk }
SyntheticChunk(c, payloads) ==
  IF c.sawAssistantDelta THEN c
  ELSE LET c1 == IF ~c.wroteRole THEN writeSse([c EXCEPT !.wroteRole = TRUE], RoleChunk) ELSE c
       IN writeSse([c1 EXCEPT !.sawAssistantDelta = TRUE], ContentChunk(JoinPayloads(payloads)))

\* catch (err) of the streaming task; the bus calls the subscriber within
\* emitAgentEvent (synchronous) or after the task has ended, when the
\* subscriber is gone
StreamCatchSilent(c, synchronous) == c
StreamCatch(c, synchronous) ==
  IF c.closed THEN c
  ELSE LET c1 == [writeSse(c, ErrorChunk) EXCEPT !.lifecycleErrors = @ + 1]
       IN IF synchronous THEN emitAgentEvent(c1, "error") ELSE c1

\* finally of the streaming task
StreamFinally(c) == IF ~c.closed THEN Terminate(c) ELSE c

\* a trim that leaves the surrounding whitespace in place
TrimKeeps(text) == text

\* String.prototype.trim on the texts of the requests
Trim(text) ==
  CASE text \in {"", " ", "  "} -> ""
    [] text = " hi " -> "hi"
    [] text = " null " -> "null"
    [] text = " HTTPS://APP.EXAMPLE " -> "HTTPS://APP.EXAMPLE"
    [] text = " https://app.example " -> "https://app.example"
    [] text = " HTTPS://Tunnel.Example" -> "HTTPS://Tunnel.Example"
    [] text = " https://tunnel.example" -> "https://tunnel.example"
    [] OTHER -> text

\* the `messages` of a request: role and content are strings here, content
\* parts are left out
Message(role, content, name) == [role |-> role, content |-> content, name |-> name]
MessageLists ==
  { <<>>,
    <<Message("user", "  ", "")>>,
    <<Message("system", "be brief", "")>>,
    <<Message("critic", "x", "")>>,
    <<Message("system", "be brief", ""), Message("user", " hi ", "")>>,
    <<Message("function", "42", "calc")>> }

\* const normalizedRole = role === "function" ? "tool" : role
NormalizedRole(role) == IF role = "function" THEN "tool" ELSE role

\* the sender tag of a conversation entry
Sender(normalizedRole, name) ==
  IF normalizedRole = "assistant" THEN "Assistant"
  ELSE IF normalizedRole = "user" THEN "User"
  ELSE IF name # "" THEN "Tool:" \o name
  ELSE "Tool"

\* the loop of buildAgentPrompt: the conversation entries of the messages
RECURSIVE ConversationEntries(_)
ConversationEntries(messages) ==
  IF messages = <<>> THEN <<>>
  ELSE LET msg == Head(messages)
           role == Trim(msg.role)
           content == Trim(msg.content)
           rest == ConversationEntries(Tail(messages))
       IN IF role = "" \/ content = "" THEN rest
          ELSE IF role \in {"system", "developer"} THEN rest
          ELSE IF NormalizedRole(role) \notin {"user", "assistant", "tool"} THEN rest
          ELSE <<[role |-> NormalizedRole(role),
                  sender |-> Sender(NormalizedRole(role), Trim(msg.name)),
                  body |-> content]>> \o rest

\* buildAgentMessageFromConversationEntries: the composite prompt, empty when
\* there is no entry
RECURSIVE buildAgentMessageFromConversationEntries(_)
buildAgentMessageFromConversationEntries(entries) ==
  IF entries = <<>> THEN ""
  ELSE IF Len(entries) = 1 THEN entries[1].sender \o ": " \o entries[1].body
  ELSE entries[1].sender \o ": " \o entries[1].body \o "\n"
       \o buildAgentMessageFromConversationEntries(Tail(entries))

\* buildAgentPrompt(messages).message
buildAgentPrompt(messages) ==
  [message |-> buildAgentMessageFromConversationEntries(ConversationEntries(messages))]

\* the handler up to `await checkBillingAllowance({iamConfig, tenant})`
ChatRequestArrives ==
  /\ chat.pc = "idle"
  /\ \E stream \in BOOLEAN, cfg \in BOOLEAN, tenant \in Tenants \cup {NoTenant},
        messages \in MessageLists :
       /\ chat' = [NoChat EXCEPT !.pc = "gate", !.stream = stream, !.iamConfig = cfg,
                                 !.tenant = tenant, !.messages = messages,
                                 !.hasPrompt = buildAgentPrompt(messages).message # ""]
       /\ Apply("c1", GateStart(Bundle([Idle EXCEPT !.op = "gate", !.cfg = cfg,
                                                     !.tenant = tenant])))
  /\ calls' = calls + 1
  /\ UNCHANGED <<reporterVars, tenantVars, edgeVars>>

\* the handler from `if (!billing.allowed)` to the start of the run
AfterGateIgnoresDenial(c, billing) ==
  LET c1 == [c EXCEPT !.billing = billing] IN
  IF ~c.hasPrompt
    THEN [sendJson(c1, 400) EXCEPT !.errorType = "invalid_request_error",
                                   !.message = "Missing user message in messages."]
  ELSE IF ~c.stream THEN [c1 EXCEPT !.pc = "run", !.accepted = TRUE, !.runId = TRUE]
  ELSE [c1 EXCEPT !.pc = "run", !.accepted = TRUE, !.runId = TRUE, !.subscribed = TRUE]
AfterGate(c, billing) ==
  LET c1 == [c EXCEPT !.billing = billing] IN
  IF billing.kind # "allowed"
    THEN [sendJson(c1, 402) EXCEPT !.errorType = "billing_error", !.message = billing.reason]
  ELSE IF ~c.hasPrompt
    THEN [sendJson(c1, 400) EXCEPT !.errorType = "invalid_request_error",
                                   !.message = "Missing user message in messages."]
  ELSE IF ~c.stream THEN [c1 EXCEPT !.pc = "run", !.accepted = TRUE, !.runId = TRUE]
  ELSE [c1 EXCEPT !.pc = "run", !.accepted = TRUE, !.runId = TRUE, !.subscribed = TRUE]

\* checkBillingAllowance has returned: 402, 400, or the run starts
GateReturns ==
  /\ chat.pc = "gate"
  /\ Return("c1")
  /\ chat' = AfterGate(chat, callers["c1"].result)
  /\ UNCHANGED <<reporterVars, tenantVars, edgeVars>>

\* the run emits an assistant event
AssistantEvent ==
  /\ chat.subscribed
  /\ chat.deltas < MaxDeltas
  /\ \E content \in DeltaTexts :
       chat' = [AssistantHandler(chat, content) EXCEPT !.deltas = @ + 1,
                                                       !.emitted = Append(@, content)]
  /\ UNCHANGED <<reporterVars, billingVars, tenantVars, edgeVars>>

\* the run emits a lifecycle event
LifecycleEvent ==
  /\ chat.subscribed
  /\ \E phase \in {"start", "end", "error"} :
       /\ chat' = LifecycleHandler(chat, phase)
       /\ chat' # chat
  /\ UNCHANGED <<reporterVars, billingVars, tenantVars, edgeVars>>

\* the client goes away while the stream is set up
ClientDisconnects ==
  /\ chat.stream /\ chat.accepted
  /\ chat' = CloseHandler(chat)
  /\ chat' # chat
  /\ UNCHANGED <<reporterVars, billingVars, tenantVars, edgeVars>>

\* non-streaming: `await agentCommand(...)` returns
RunReturns ==
  /\ chat.pc = "run" /\ ~chat.stream
  /\ \E usage \in Usages, payloads \in Payloads :
       /\ chat' = sendJson([chat EXCEPT !.returned = TRUE, !.usage = usage,
                                        !.payloads = payloads,
                                        !.content = JoinPayloads(payloads),
                                        !.finish_reason = "stop"], 200)
       /\ IF ShouldReport(chat, usage) THEN reportUsage ELSE UNCHANGED reporterVars
  /\ UNCHANGED <<billingVars, tenantVars, edgeVars>>

\* non-streaming: `await agentCommand(...)` throws
RunThrows ==
  /\ chat.pc = "run" /\ ~chat.stream
  /\ chat' = sendJson(chat, 500)
  /\ UNCHANGED <<reporterVars, billingVars, tenantVars, edgeVars>>

\* streaming: `await agentCommand(...)` returns in the detached task
StreamRunReturns ==
  /\ chat.pc = "run" /\ chat.stream
  /\ \E usage \in Usages, payloads \in Payloads :
       LET c == [chat EXCEPT !.pc = "done", !.returned = TRUE, !.usage = usage] IN
         IF chat.closed
           THEN chat' = StreamFinally(c) /\ UNCHANGED reporterVars
           ELSE /\ chat' = StreamFinally(SyntheticChunk(c, payloads))
                /\ IF StreamShouldReport(chat, usage) THEN reportUsage
                                                      ELSE UNCHANGED reporterVars
  /\ UNCHANGED <<billingVars, tenantVars, edgeVars>>

\* streaming: `await agentCommand(...)` throws in the detached task
StreamRunThrows ==
  /\ chat.pc = "run" /\ chat.stream
  /\ \E synchronous \in BOOLEAN :
       chat' = StreamFinally(StreamCatch([chat EXCEPT !.pc = "done"], synchronous))
  /\ UNCHANGED <<reporterVars, billingVars, tenantVars, edgeVars>>

ChatIdle == chat = NoChat

InitChat == chat = NoChat

----------------------------------------------------------------------------
(* Origin and host policy, and the CORS headers of the OAuth proxy *)

\* String.prototype.toLowerCase on the texts of the requests
ToLowerCaseKeeps(text) == text
ToLowerCase(text) ==
  CASE text = "HTTPS://APP.EXAMPLE" -> "https://app.example"
    [] text = "HTTPS://Tunnel.Example" -> "https://tunnel.example"
    [] text = "Gateway" -> "gateway"
    [] text = "NULL" -> "null"
    [] OTHER -> text

\* The Origin headers, Host headers and allow-lists of the requests.
OriginHeaders ==
  {Undefined, "", "null", " null ", "NULL", "not a url", "file:///etc/hosts",
   "https://app.example", "HTTPS://APP.EXAMPLE", " HTTPS://APP.EXAMPLE ",
   "https://evil.example", "http://127.0.0.1:3000", "https://gateway",
   "https://tunnel.example"}
RequestHosts == {Undefined, "gateway", "Gateway", "localhost:18789"}
AllowLists ==
  { <<>>,
    <<"https://app.example">>,
    <<" HTTPS://APP.EXAMPLE ">>,
    <<"https://evil.example", "https://app.example">>,
    <<"https://app.example", "https://evil.example">>,
    <<"", "https://tunnel.example">> }
RuntimeOrigins == {"https://tunnel.example", " HTTPS://Tunnel.Example", "https://evil.example"}

\* new URL(text): the WHATWG parser lower-cases scheme and host, drops the
\* default port, and gives the origin "null" to a scheme without authority;
\* it throws on a text without a scheme
NoUrl == [valid |-> FALSE, origin |-> "", host |-> "", hostname |-> ""]
Url(origin, host, hostname) ==
  [valid |-> TRUE, origin |-> origin, host |-> host, hostname |-> hostname]
NewURL(text) ==
  CASE text \in {"https://app.example", "HTTPS://APP.EXAMPLE"} ->
         Url("https://app.example", "app.example", "app.example")
    [] text = "https://evil.example" -> Url("https://evil.example", "evil.example", "evil.example")
    [] text = "http://127.0.0.1:3000" -> Url("http://127.0.0.1:3000", "127.0.0.1:3000", "127.0.0.1")
    [] text = "https://gateway" -> Url("https://gateway", "gateway", "gateway")
    [] text \in {"https://tunnel.example", "HTTPS://Tunnel.Example"} ->
         Url("https://tunnel.example", "tunnel.example", "tunnel.example")
    [] text = "file:///etc/hosts" -> Url("null", "", "")
    [] OTHER -> NoUrl

\* parseOrigin(originRaw)
NoOrigin == [present |-> FALSE, origin |-> "", host |-> "", hostname |-> ""]
parseOrigin(originRaw) ==
  LET trimmed == Trim(Coalesce(originRaw, ""))
      url == NewURL(trimmed)
  IN IF trimmed = "" \/ trimmed = "null" THEN NoOrigin
     ELSE IF ~url.valid THEN NoOrigin
     ELSE [present |-> TRUE, origin |-> ToLowerCase(url.origin),
           host |-> ToLowerCase(url.host), hostname |-> ToLowerCase(url.hostname)]

\* normalizeHostHeader(requestHost): trimmed and lower-cased, "" when absent
normalizeHostHeader(requestHost) == ToLowerCase(Trim(Coalesce(requestHost, "")))

\* resolveHostName(host): the host without its port
resolveHostName(host) == IF host = "localhost:18789" THEN "localhost" ELSE host

\* isLoopbackHost(hostname): 127/8, ::1, localhost
isLoopbackHost(hostname) == hostname \in {"localhost", "127.0.0.1", "::1"}

\* (params.allowedOrigins ?? []).map((value) => value.trim().toLowerCase()).filter(Boolean)
Allowlist(allowedOrigins) ==
  SelectSeq([i \in 1..Len(allowedOrigins) |-> ToLowerCase(Trim(allowedOrigins[i]))], HasText)

\* isLoopbackHost(parsedOrigin.hostname) && isLoopbackHost(requestHostname)
LoopbackRuleEither(originHostname, requestHostname) ==
  isLoopbackHost(originHostname) \/ isLoopbackHost(requestHostname)
LoopbackRule(originHostname, requestHostname) ==
  isLoopbackHost(originHostname) /\ isLoopbackHost(requestHostname)

OriginOk == [ok |-> TRUE, reason |-> ""]
OriginDenied(reason) == [ok |-> FALSE, reason |-> reason]

\* checkBrowserOrigin({requestHost, origin, allowedOrigins}), with the
\* runtime allow-set it reads
checkBrowserOrigin(requestHostRaw, origin, allowedOrigins, runtime) ==
  LET parsedOrigin == parseOrigin(origin)
      allowlist == Allowlist(allowedOrigins)
      requestHost == normalizeHostHeader(requestHostRaw)
      requestHostname == resolveHostName(requestHost)
  IN IF ~parsedOrigin.present THEN OriginDenied("origin missing or invalid")
     ELSE IF Includes(allowlist, parsedOrigin.origin) THEN OriginOk
     ELSE IF parsedOrigin.origin \in runtime THEN OriginOk
     ELSE IF requestHost # "" /\ parsedOrigin.host = requestHost THEN OriginOk
     ELSE IF LoopbackRule(parsedOrigin.hostname, requestHostname) THEN OriginOk
     ELSE OriginDenied("origin not allowed")

NoBrowser == [op |-> "none", pathname |-> "", method |-> "", origin |-> Undefined,
              requestHost |-> Undefined, allowedOrigins |-> <<>>, runtime |-> {},
              result |-> OriginOk,
              handled |-> FALSE, statusCode |-> 0, ended |-> FALSE,
              allowOrigin |-> Undefined, allowCredentials |-> Undefined,
              allowMethods |-> Undefined, allowHeaders |-> Undefined]

\* addRuntimeAllowedOrigin(origin)
addRuntimeAllowedOrigin(origin) ==
  /\ runtimeAllowedOrigins' = runtimeAllowedOrigins \cup {ToLowerCase(Trim(origin))}
  /\ UNCHANGED browser

\* removeRuntimeAllowedOrigin(origin)
removeRuntimeAllowedOrigin(origin) ==
  /\ runtimeAllowedOrigins' = runtimeAllowedOrigins \ {ToLowerCase(Trim(origin))}
  /\ UNCHANGED browser

\* clearRuntimeAllowedOrigins()
clearRuntimeAllowedOrigins ==
  /\ runtimeAllowedOrigins' = {}
  /\ UNCHANGED browser

\* a caller decides a browser request with checkBrowserOrigin
BrowserOriginChecked ==
  /\ \E origin \in OriginHeaders, requestHost \in RequestHosts, allowedOrigins \in AllowLists :
       browser' = [NoBrowser EXCEPT
                     !.op = "check", !.origin = origin, !.requestHost = requestHost,
                     !.allowedOrigins = allowedOrigins,
                     !.runtime = runtimeAllowedOrigins,
                     !.result = checkBrowserOrigin(requestHost, origin, allowedOrigins,
                                                   runtimeAllowedOrigins)]
  /\ UNCHANGED runtimeAllowedOrigins

\* handleIamOAuthHttpRequest(req, res, config) up to the dispatch on subPath;
\* allowedOrigins is the allow-list of the gateway's configuration
handleIamOAuthHttpRequest ==
  /\ \E pathname \in {"/auth/login", "/v1/models"}, method \in {"OPTIONS", "GET"},
        origin \in OriginHeaders, requestHost \in {"gateway"},
        allowedOrigins \in {<<>>, <<"https://app.example">>} :
       LET req == [NoBrowser EXCEPT !.op = "oauth", !.pathname = pathname, !.method = method,
                                    !.origin = origin, !.requestHost = requestHost,
                                    !.allowedOrigins = allowedOrigins,
                                    !.runtime = runtimeAllowedOrigins]
           cors == [req EXCEPT !.allowOrigin = Coalesce(origin, "*"),
                               !.allowMethods = "GET, POST, OPTIONS",
                               !.allowHeaders = "Authorization, Content-Type",
                               !.allowCredentials = "true"]
       IN browser' = IF pathname # "/auth/login" THEN req
                     ELSE IF method = "OPTIONS"
                       THEN [cors EXCEPT !.statusCode = 204, !.ended = TRUE, !.handled = TRUE]
                     ELSE [cors EXCEPT !.handled = TRUE]
  /\ UNCHANGED runtimeAllowedOrigins

\* the history of calls holds at most MaxOriginCalls calls
MaxOriginCalls == 3

\* a caller calls addRuntimeAllowedOrigin(origin); the history records the call
AddCalled(origin) ==
  /\ Len(originCalls) < MaxOriginCalls
  /\ addRuntimeAllowedOrigin(origin)
  /\ originCalls' = Append(originCalls, [op |-> "add", origin |-> origin])

\* a caller calls removeRuntimeAllowedOrigin(origin)
RemoveCalled(origin) ==
  /\ Len(originCalls) < MaxOriginCalls
  /\ removeRuntimeAllowedOrigin(origin)
  /\ originCalls' = Append(originCalls, [op |-> "remove", origin |-> origin])

\* a caller calls clearRuntimeAllowedOrigins()
ClearCalled ==
  /\ Len(originCalls) < MaxOriginCalls
  /\ clearRuntimeAllowedOrigins
  /\ originCalls' = Append(originCalls, [op |-> "clear", origin |-> Undefined])

OriginIdle == runtimeAllowedOrigins = {} /\ browser = NoBrowser /\ originCalls = <<>>

InitOrigin == runtimeAllowedOrigins = {} /\ browser = NoBrowser /\ originCalls = <<>>


----------------------------------------------------------------------------
(* Connection authorizer: authorizeGatewayConnect, authorizeGatewayBearerRequest *)

\* the limiter locks a source address out after MaxAttempts failed attempts
MaxAttempts == 2

\* auth: ResolvedGatewayAuth {mode, token?, password?, allowTailscale}
ResolvedAuth(mode, token, password, allowTailscale) ==
  [mode |-> mode, token |-> token, password |-> password, allowTailscale |-> allowTailscale]
ResolvedAuths ==
  {ResolvedAuth(mode, secrets[1], secrets[2], allowTailscale) :
     mode \in {"token", "password"},
     secrets \in {<<Undefined, Undefined>>, <<"secret", "hunter2">>},
     allowTailscale \in BOOLEAN}

\* connectAuth: {token?, password?} | null
NoConnectAuth == [present |-> FALSE, token |-> Undefined, password |-> Undefined]
ConnectAuth(token, password) == [present |-> TRUE, token |-> token, password |-> password]
ConnectAuths ==
  {NoConnectAuth, ConnectAuth("secret", Undefined), ConnectAuth("wrong", Undefined),
   ConnectAuth(Undefined, "hunter2"), ConnectAuth(Undefined, "wrong"),
   ConnectAuth("secret", "secret")}

\* req: the peer address of its socket (Undefined without a socket), its
\* Host header, whether it carries the x-forwarded-for/-proto/-host chain of
\* the mesh proxy, its tailscale-user-login header, and the login that the
\* mesh's whois reports for the forwarded address
Req(remoteAddress, host, forwarded, login, whois) ==
  [remoteAddress |-> remoteAddress, host |-> host, forwarded |-> forwarded,
   login |-> login, whois |-> whois]
EmptyReq == Req(Undefined, Undefined, FALSE, Undefined, Undefined)
ServeHostReq == Req("127.0.0.1", "gateway.tailnet-1234.ts.net:443", FALSE, Undefined, Undefined)
MeshReq == Req("127.0.0.1", "gateway.local", TRUE, "peter", "peter")
ForgedLoginReq == Req("127.0.0.1", "gateway.local", TRUE, "peter", "mallory")
RemoteHeaderReq == Req("203.0.113.9", "gateway.local", TRUE, "peter", "peter")
RemoteReq == Req("203.0.113.9", "gateway.local", FALSE, Undefined, Undefined)
Reqs == {EmptyReq, ServeHostReq, MeshReq, ForgedLoginReq, RemoteHeaderReq, RemoteReq}

\* the peer is the gateway's own host
IsLoopbackAddress(remoteAddress) == remoteAddress \in {"127.0.0.1", "::1"}

\* the Host header names the gateway locally or by its mesh name (*.ts.net)
IsLocalOrMeshHost(host) ==
  host \in {"localhost", "127.0.0.1", "gateway.tailnet-1234.ts.net:443"}

\* a request made to the gateway directly: loopback peer, local or
\* mesh-suffixed host, no forwarded chain
IsLocalDirectRequest(req) ==
  /\ IsLoopbackAddress(req.remoteAddress)
  /\ IsLocalOrMeshHost(req.host)
  /\ ~req.forwarded

\* the mesh-supplied login of a request: it comes from a loopback peer
\* through the mesh proxy's forwarded chain, and whois confirms the login
VerifiedMeshLogin(req) ==
  IF /\ IsLoopbackAddress(req.remoteAddress)
     /\ req.forwarded
     /\ req.login # Undefined
     /\ req.whois = req.login
    THEN req.login
    ELSE Undefined

AuthOk(method, user) == [ok |-> TRUE, method |-> method, user |-> user, reason |-> ""]
AuthFail(reason) == [ok |-> FALSE, method |-> "", user |-> Undefined, reason |-> reason]

\* the decision for one shared secret: configured secret, supplied credential
SecretDecisionSkipsConfig(mode, configured, supplied) ==
  IF supplied = Undefined THEN AuthFail(mode \o "_missing")
  ELSE IF supplied # configured THEN AuthFail(mode \o "_mismatch")
  ELSE AuthOk(mode, Undefined)
SecretDecision(mode, configured, supplied) ==
  IF configured = Undefined THEN AuthFail(mode \o "_missing_config")
  ELSE IF supplied = Undefined THEN AuthFail(mode \o "_missing")
  ELSE IF supplied # configured THEN AuthFail(mode \o "_mismatch")
  ELSE AuthOk(mode, Undefined)

\* authorizeGatewayConnect({auth, connectAuth, req, rateLimiter}); limited
\* tells whether a limiter is passed and has locked the source out
MeshFallbackAlways(auth, req) == VerifiedMeshLogin(req) # Undefined
MeshFallback(auth, req) ==
  auth.allowTailscale /\ ~IsLocalDirectRequest(req) /\ VerifiedMeshLogin(req) # Undefined

authorizeGatewayConnect(auth, connectAuth, req, limited) ==
  IF limited THEN AuthFail("rate_limited")
  ELSE IF MeshFallback(auth, req) THEN AuthOk("tailscale", VerifiedMeshLogin(req))
  ELSE IF auth.mode = "token" THEN SecretDecision("token", auth.token, connectAuth.token)
  ELSE IF auth.mode = "password"
    THEN SecretDecision("password", auth.password, connectAuth.password)
  ELSE AuthFail("unauthorized")

\* the limiter after a decision: a success resets the window, a failed
\* credential is recorded, a lock-out and a missing configuration change nothing
RecordAttempt(failures, result) ==
  IF result.ok THEN 0
  ELSE IF result.reason \in {"rate_limited", "token_missing_config", "password_missing_config"}
    THEN failures
  ELSE Min(failures + 1, MaxAttempts)

\* getBearerToken(req): the credential of the Authorization header
Bearers == {Undefined, "secret", "wrong"}

\* authorizeGatewayBearerRequest: connectAuth: token ? { token, password: token } : null
BearerConnectAuth(token) ==
  IF token # Undefined /\ token # "" THEN ConnectAuth(token, token) ELSE NoConnectAuth

NoAuthCall == [made |-> FALSE, auth |-> ResolvedAuth("token", Undefined, Undefined, FALSE),
               connectAuth |-> NoConnectAuth, req |-> EmptyReq, limiter |-> FALSE,
               limited |-> FALSE, result |-> AuthFail("")]

\* a caller (the WebSocket connect handler, an HTTP endpoint) awaits
\* authorizeGatewayConnect
AuthorizeConnect ==
  \E auth \in ResolvedAuths, connectAuth \in ConnectAuths, req \in Reqs, limiter \in BOOLEAN :
    LET limited == limiter /\ authFailures >= MaxAttempts
        result == authorizeGatewayConnect(auth, connectAuth, req, limited)
    IN /\ authCall' = [made |-> TRUE, auth |-> auth, connectAuth |-> connectAuth,
                       req |-> req, limiter |-> limiter, limited |-> limited,
                       result |-> result]
       /\ authFailures' = IF limiter THEN RecordAttempt(authFailures, result)
                                     ELSE authFailures
       /\ UNCHANGED endpoint

\* ---- handleGatewayPostJsonEndpoint, as handleOpenAiHttpRequest calls it ----

NoEndpoint ==
  [pc |-> "idle", pathname |-> "", method |-> "", bearer |-> Undefined,
   auth |-> ResolvedAuth("token", Undefined, Undefined, FALSE), req |-> EmptyReq,
   steps |-> <<>>, statuses |-> <<>>, allow |-> Undefined, authResult |-> AuthFail(""),
   handled |-> "pending", returned |-> "pending"]

\* handleOpenAiHttpRequest on the middleware's result: false, undefined or {body}
OpenAiReturnFalsy(handled) == IF handled = "body" THEN "pending" ELSE "false"
OpenAiReturn(handled) ==
  IF handled = "false" THEN "false"
  ELSE IF handled = "undefined" THEN "true"
  ELSE "pending"

\* the middleware returns handled to handleOpenAiHttpRequest
Handled(e, handled) ==
  [e EXCEPT !.handled = handled,
            !.returned = OpenAiReturn(handled),
            !.pc = IF handled = "body" THEN "handler" ELSE "done"]

\* sendGatewayAuthFailure(res, authResult)
AuthFailureStatus(result) == 401

\* a request arrives: path match and method check run before the first await
EndpointRequestArrives ==
  /\ endpoint.pc \in {"idle", "done"}
  /\ \E pathname \in {"/v1/chat/completions", "/v1/models"}, method \in {"POST", "GET"},
        bearer \in Bearers, allowTailscale \in BOOLEAN, req \in {EmptyReq, MeshReq} :
       LET e == [NoEndpoint EXCEPT !.pathname = pathname, !.method = method,
                                   !.bearer = bearer, !.req = req,
                                   !.auth = ResolvedAuth("token", "secret", "hunter2",
                                                         allowTailscale)]
       IN endpoint' =
            IF pathname # "/v1/chat/completions"
              THEN Handled([e EXCEPT !.steps = <<"path">>], "false")
            ELSE IF method # "POST"
              THEN Handled([e EXCEPT !.steps = <<"path", "method">>,
                                     !.statuses = <<405>>, !.allow = "POST"], "undefined")
            ELSE [e EXCEPT !.steps = <<"path", "method">>, !.pc = "auth"]
  /\ UNCHANGED <<authFailures, authCall>>

\* authorizeGatewayBearerRequest settles
EndpointAuthorized ==
  /\ endpoint.pc = "auth"
  /\ LET connectAuth == BearerConnectAuth(endpoint.bearer)
         limited == authFailures >= MaxAttempts
         authResult == authorizeGatewayConnect(endpoint.auth, connectAuth, endpoint.req, limited)
         e == [endpoint EXCEPT !.steps = Append(@, "auth"), !.authResult = authResult]
     IN /\ authCall' = [made |-> TRUE, auth |-> endpoint.auth, connectAuth |-> connectAuth,
                        req |-> endpoint.req, limiter |-> TRUE, limited |-> limited,
                        result |-> authResult]
        /\ authFailures' = RecordAttempt(authFailures, authResult)
        /\ endpoint' =
             IF ~authResult.ok
               THEN Handled([e EXCEPT !.statuses = Append(@, AuthFailureStatus(authResult))],
                            "undefined")
               ELSE [e EXCEPT !.pc = "body"]

\* readJsonBodyOrError settles: the body, or a reply of 413 or 400
EndpointBodyRead ==
  /\ endpoint.pc = "body"
  /\ \E outcome \in {"ok", "too_large", "invalid"} :
       LET e == [endpoint EXCEPT !.steps = Append(@, "body")]
       IN endpoint' =
            CASE outcome = "ok" -> Handled(e, "body")
              [] outcome = "too_large" ->
                   Handled([e EXCEPT !.statuses = Append(@, 413)], "undefined")
              [] OTHER -> Handled([e EXCEPT !.statuses = Append(@, 400)], "undefined")
  /\ UNCHANGED <<authFailures, authCall>>

\* the chat handler that follows the middleware replies and returns true
EndpointHandlerReturns ==
  /\ endpoint.pc = "handler"
  /\ endpoint' = [endpoint EXCEPT !.pc = "done", !.returned = "true"]
  /\ UNCHANGED <<authFailures, authCall>>

AuthIdle == authFailures = 0 /\ authCall = NoAuthCall /\ endpoint = NoEndpoint

InitAuth == authFailures = 0 /\ authCall = NoAuthCall /\ endpoint = NoEndpoint


----------------------------------------------------------------------------
(* Tunnel supervisor: startGatewayTunnel and its providers *)

STARTUP_TIMEOUT_MS == 30000
STOP_TIMEOUT_MS == 3000

\* the gateway calls the handle's stop() at most MaxStops times
MaxStops == 2

Providers == {"none", "cloudflared", "ngrok", "localxpose", "zrok"}

\* What a tunnel child writes to its output, as the pieces between the
\* places where the pipe may cut it into data chunks; a newline is a piece
\* of its own.
Scripts(provider) ==
  CASE provider = "cloudflared" ->
         { <<"INF starting tunnel", "\n">>,
           <<"INF |  https://abc", ".trycloudflare.c", "om", "\n">> }
    [] provider = "ngrok" ->
         { <<"starting ngrok", "\n">>,
           <<"{\"msg\":\"starting web service\"}", "\n",
             "{\"url\":\"https://abc.ngrok.a", "pp/\"}", "\n">>,
           <<"{\"url\":1}", "\n">> }
    [] provider = "localxpose" ->
         { <<"INF starting tunnel", "\n">>,
           <<"Tunnel: https://abc.loclx.i", "o", "\n">> }
    [] provider = "zrok" ->
         { <<"INF starting tunnel", "\n">>,
           <<"share: https://abc.share.zrok.i", "o", "\n">> }
    [] OTHER -> { <<>> }

\* data.toString() of a chunk: its pieces concatenated
RECURSIVE Concat(_)
Concat(pieces) ==
  IF pieces = <<>> THEN "" ELSE Head(pieces) \o Concat(Tail(pieces))

\* toWssUrl(httpUrl): https:// -> wss://, http:// -> ws://, trailing / dropped
toWssUrl(httpUrl) ==
  CASE httpUrl = "https://abc.trycloudflare.com" -> "wss://abc.trycloudflare.com"
    [] httpUrl = "https://abc.loclx.io" -> "wss://abc.loclx.io"
    [] httpUrl = "https://abc.share.zrok.io" -> "wss://abc.share.zrok.io"
    [] httpUrl = "https://abc.share.zrok.i" -> "wss://abc.share.zrok.i"
    [] httpUrl = "https://abc.ngrok.app/" -> "wss://abc.ngrok.app"
    [] OTHER -> httpUrl

\* toOrigin(url): new URL(url).origin, or url when it does not parse
toOrigin(url) ==
  CASE url = "https://abc.ngrok.app/" -> "https://abc.ngrok.app"
    [] OTHER -> url

\* JSON.parse(line).url: a string, a value of another type, or absent;
\* parsed is FALSE when JSON.parse throws
JsonUrl(line) ==
  CASE line = "{\"msg\":\"starting web service\"}" ->
         [parsed |-> TRUE, type |-> "undefined", url |-> ""]
    [] line = "{\"url\":\"https://abc.ngrok.app/\"}" ->
         [parsed |-> TRUE, type |-> "string", url |-> "https://abc.ngrok.app/"]
    [] line = "{\"url\":1}" -> [parsed |-> TRUE, type |-> "number", url |-> ""]
    [] OTHER -> [parsed |-> FALSE, type |-> "undefined", url |-> ""]

\* buffer.match(pattern) of the provider, on the output accumulated so far:
\*   cloudflared  https:\/\/[a-z0-9-]+\.trycloudflare\.com
\*   localxpose   https?:\/\/[^\s]+\.loclx\.io
\*   zrok         https?:\/\/[^\s]+\.zrok\.[^\s]+
ZrokPattern(buffer) ==
  CASE buffer = "share: https://abc.share.zrok.i" -> "https://abc.share.zrok.i"
    [] buffer \in {"share: https://abc.share.zrok.io", "share: https://abc.share.zrok.io\n"} ->
         "https://abc.share.zrok.io"
    [] OTHER -> Undefined

MatchUrl(provider, buffer) ==
  CASE provider = "cloudflared"
         /\ buffer \in {"INF |  https://abc.trycloudflare.com",
                        "INF |  https://abc.trycloudflare.com\n"} ->
         "https://abc.trycloudflare.com"
    [] provider = "localxpose"
         /\ buffer \in {"Tunnel: https://abc.loclx.io", "Tunnel: https://abc.loclx.io\n"} ->
         "https://abc.loclx.io"
    [] provider = "zrok" -> ZrokPattern(buffer)
    [] OTHER -> Undefined

NoTunnel ==
  [pc |-> "idle", provider |-> "none", authToken |-> FALSE, spawned |-> 0,
   childAlive |-> FALSE, kills |-> 0, resolved |-> FALSE, timeout |-> 0,
   outcome |-> "pending", settlements |-> 0, message |-> "",
   returned |-> "pending", publicUrl |-> Undefined, publicOrigin |-> Undefined,
   urlParsed |-> FALSE, failure |-> "", warned |-> FALSE,
   script |-> <<>>, delivered |-> 0, buffer |-> "", exit |-> "", stops |-> <<>>]

\* return null (after log.warn where the code warns)
ReturnsNull(t, warned) ==
  [t EXCEPT !.pc = "done", !.returned = "null", !.warned = warned]

\* resolved = true; clearTimeout(timeout)
MarkResolved(t) == [t EXCEPT !.resolved = TRUE, !.timeout = 0]

\* the provider promise rejects; startGatewayTunnel's catch logs and returns null
ProviderRejects(t, message) ==
  ReturnsNull([MarkResolved(t) EXCEPT !.outcome = "rejected", !.settlements = @ + 1,
                                      !.message = message], TRUE)

\* the provider promise resolves with the handle, which startGatewayTunnel returns
ProviderResolves(t, url) ==
  [MarkResolved(t) EXCEPT !.outcome = "resolved", !.settlements = @ + 1,
                          !.pc = "done", !.returned = "handle",
                          !.publicUrl = toWssUrl(url), !.publicOrigin = toOrigin(url),
                          !.urlParsed = TRUE]

\* spawn(provider binary, args) inside the provider's promise: the startup
\* timer is armed; script is what this child is going to write
SpawnChild(t, script) ==
  [t EXCEPT !.pc = "starting", !.spawned = @ + 1, !.childAlive = TRUE,
            !.timeout = STARTUP_TIMEOUT_MS, !.script = script]

\* proc.kill("SIGTERM"): the signal reaches a child that has not exited
Kill(t) == [t EXCEPT !.kills = IF t.childAlive THEN @ + 1 ELSE @]

\* a startup failure seen while startGatewayTunnel has not returned
Failure(t, kind) == IF t.returned = "pending" /\ t.failure = "" THEN kind ELSE t.failure

\* startGatewayTunnel({config, port, log}) up to its first await
startGatewayTunnel ==
  /\ tunnel.pc = "idle"
  /\ \E provider \in Providers, authToken \in BOOLEAN :
       LET t == [tunnel EXCEPT !.provider = provider, !.authToken = authToken]
       IN tunnel' = IF provider = "none" THEN ReturnsNull(t, FALSE)
                                         ELSE [t EXCEPT !.pc = "checking"]

\* isProviderAvailable settles; an available provider starts: ngrok and
\* localxpose first run their auth-token command when a token is configured
ProviderChecked ==
  /\ tunnel.pc = "checking"
  /\ \E available \in BOOLEAN, script \in Scripts(tunnel.provider) :
       tunnel' =
         IF ~available THEN ReturnsNull(tunnel, TRUE)
         ELSE IF tunnel.provider \in {"ngrok", "localxpose"} /\ tunnel.authToken
           THEN [tunnel EXCEPT !.pc = "authToken"]
         ELSE SpawnChild(tunnel, script)

\* runCommand settles: exit code 0 resolves, another code or a spawn error rejects
AuthTokenCommandSettles ==
  /\ tunnel.pc = "authToken"
  /\ \E ok \in BOOLEAN, script \in Scripts(tunnel.provider) :
       tunnel' = IF ok THEN SpawnChild(tunnel, script)
                       ELSE ProviderRejects([tunnel EXCEPT !.failure =
                                                      Failure(tunnel, "auth_command")],
                                            tunnel.provider \o " command failed")

\* the startup timer fires
StartupTimeout ==
  /\ tunnel.timeout > 0
  /\ tunnel' =
       IF ~tunnel.resolved
         THEN ProviderRejects(Kill([tunnel EXCEPT !.failure = Failure(tunnel, "timeout")]),
                              tunnel.provider \o " startup timed out (30s)")
         ELSE [tunnel EXCEPT !.timeout = 0]

\* ngrok's processLine(line) on a line of stdout
processLine(t, line) ==
  LET log == JsonUrl(line) IN
  IF ~log.parsed \/ log.type = "undefined" \/ t.resolved THEN t
  ELSE IF log.type = "string" THEN ProviderResolves(t, log.url)
  \* toWssUrl(url) throws inside the try after resolved was set and the
  \* timer cleared; the catch swallows it
  ELSE MarkResolved(t)

\* ngrok's stdout handler: outputBuffer += data; every complete non-blank
\* line goes to processLine, the unfinished rest stays in outputBuffer
RECURSIVE ProcessLines(_, _)
ProcessLines(t, pieces) ==
  IF pieces = <<>> THEN t
  ELSE IF Head(pieces) = "\n"
    THEN ProcessLines(IF t.buffer # "" THEN processLine([t EXCEPT !.buffer = ""], t.buffer)
                                      ELSE t,
                      Tail(pieces))
  ELSE ProcessLines([t EXCEPT !.buffer = @ \o Head(pieces)], Tail(pieces))

\* the other providers' processOutput(data): the buffer grows and is matched
processOutput(t, data) ==
  LET u == [t EXCEPT !.buffer = @ \o data] IN
  IF MatchUrl(u.provider, u.buffer) # Undefined /\ ~u.resolved
    THEN ProviderResolves(u, MatchUrl(u.provider, u.buffer))
    ELSE u

\* the child writes: the pipe delivers the next pieces of its output as one chunk
ChildOutput ==
  /\ tunnel.childAlive
  /\ \E n \in (tunnel.delivered + 1)..Len(tunnel.script) :
       LET pieces == SubSeq(tunnel.script, tunnel.delivered + 1, n)
           t == [tunnel EXCEPT !.delivered = n]
       IN tunnel' = IF tunnel.provider = "ngrok" THEN ProcessLines(t, pieces)
                                                 ELSE processOutput(t, Concat(pieces))

\* ngrok writes an error to stderr: msg.includes("ERR_NGROK")
NgrokErrorOutput ==
  /\ tunnel.childAlive
  /\ tunnel.provider = "ngrok"
  /\ ~tunnel.resolved
  /\ tunnel' = ProviderRejects([tunnel EXCEPT !.failure = Failure(tunnel, "error_output")],
                               "ngrok error: ERR_NGROK_108")

\* 'close' resolves every stop() that is waiting; its timer stays armed
StopsAfterCloseStillWaiting(stops) == stops
StopsAfterClose(stops) == [i \in 1..Len(stops) |-> [stops[i] EXCEPT !.done = TRUE]]

\* the child emits 'error' (it could not be spawned) or 'close'
ChildEnds ==
  /\ tunnel.childAlive
  /\ \E event \in {"error", "close"} :
       LET t == [tunnel EXCEPT !.childAlive = FALSE, !.exit = event,
                               !.failure = Failure(tunnel, IF event = "error"
                                                             THEN "spawn_error"
                                                             ELSE "exit")]
           u == IF event = "close" THEN [t EXCEPT !.stops = StopsAfterClose(@)] ELSE t
       IN tunnel' = IF ~tunnel.resolved
                      THEN ProviderRejects(u, IF event = "error"
                                                THEN "Failed to start " \o tunnel.provider
                                                ELSE tunnel.provider \o " exited unexpectedly")
                      ELSE u

\* the handle's stop(): SIGTERM, then wait for 'close' or for the stop timer
TunnelStop ==
  /\ tunnel.returned = "handle"
  /\ Len(tunnel.stops) < MaxStops
  /\ tunnel' = [Kill(tunnel) EXCEPT !.stops =
                   Append(@, [done |-> FALSE, timer |-> STOP_TIMEOUT_MS,
                              afterExit |-> ~tunnel.childAlive])]

\* the stop timer of one stop() call fires
StopTimeout ==
  \E i \in 1..Len(tunnel.stops) :
    /\ tunnel.stops[i].timer > 0
    /\ tunnel' = [tunnel EXCEPT !.stops[i].done = TRUE, !.stops[i].timer = 0]

\* the gateway calls startGatewayTunnel again (a restart)
TunnelForgotten ==
  /\ tunnel.pc = "done"
  /\ ~tunnel.childAlive
  /\ tunnel.timeout = 0
  /\ \A i \in 1..Len(tunnel.stops) : tunnel.stops[i].timer = 0
  /\ tunnel' = NoTunnel

TunnelIdle == tunnel = NoTunnel

InitTunnel == tunnel = NoTunnel


----------------------------------------------------------------------------
(* Tenant-scoped paths: sanitizeSlug, resolveTenantStateDir *)

\* Identifiers are sequences of characters.  Raw identifiers are written
\* over IdChars and are at most MaxIdLen long.
MaxIdLen == 2
IdChars == {"a", "/", "."}
Alnum == {"a", "2", "5", "F"}

\* SAFE_SLUG_RE = /^[a-zA-Z0-9][a-zA-Z0-9._-]{0,127}$/
SAFE_SLUG_MAX == 128
SAFE_SLUG_RE(value) ==
  /\ Len(value) >= 1
  /\ Len(value) <= SAFE_SLUG_MAX
  /\ value[1] \in Alnum
  /\ \A i \in 2..Len(value) : value[i] \in Alnum \cup {".", "_", "-"}

\* encodeURIComponent(value): letters, digits and - _ . ! ~ * ' ( ) stay,
\* every other character becomes %XX
EncodeChar(c) ==
  CASE c = "/" -> <<"%", "2", "F">>
    [] c = "%" -> <<"%", "2", "5">>
    [] OTHER -> <<c>>
RECURSIVE encodeURIComponent(_)
encodeURIComponent(value) ==
  IF value = <<>> THEN <<>>
  ELSE EncodeChar(Head(value)) \o encodeURIComponent(Tail(value))

\* .replace(/%/g, "_")
ReplacePercentKeeps(text) == text
ReplacePercent(text) == [i \in 1..Len(text) |-> IF text[i] = "%" THEN "_" ELSE text[i]]

sanitizeSlug(value) ==
  IF SAFE_SLUG_RE(value) THEN value ELSE ReplacePercent(encodeURIComponent(value))

RawIds == UNION {[1..n -> IdChars] : n \in 0..MaxIdLen}

\* the identifiers of the model: the raw ones and their sanitized forms
Ids == RawIds \cup {sanitizeSlug(x) : x \in RawIds}

\* path.join(...segments): empty and "." segments are dropped, ".." removes
\* the segment before it
RECURSIVE Normalize(_, _)
Normalize(done, rest) ==
  IF rest = <<>> THEN done
  ELSE IF Head(rest) \in {<<>>, <<".">>} THEN Normalize(done, Tail(rest))
  ELSE IF Head(rest) = <<".", ".">>
    THEN Normalize(IF done = <<>> THEN done ELSE SubSeq(done, 1, Len(done) - 1), Tail(rest))
  ELSE Normalize(Append(done, Head(rest)), Tail(rest))
PathJoin(segments) == Normalize(<<>>, segments)

\* resolveStateDir(env), and the "tenants" segment
BaseDir == << <<"~">>, <<".bot">> >>
TenantsSegment == <<"tenants">>

\* a TenantContext as these functions read it; projectId <<>> is absent or ""
TenantOf(orgId, projectId) == [present |-> TRUE, orgId |-> orgId, projectId |-> projectId]
NoTenantContext == [present |-> FALSE, orgId |-> <<>>, projectId |-> <<>>]
ProjectIds == {<<>>, <<"a">>, <<"/">>, <<"_", "2", "F">>, <<".", ".">>}
TenantContexts == {TenantOf(orgId, projectId) : orgId \in Ids \ {<<>>}, projectId \in ProjectIds}

resolveTenantStateDir(tenant) ==
  IF ~tenant.present THEN BaseDir
  ELSE IF tenant.projectId # <<>>
    THEN PathJoin(BaseDir \o <<TenantsSegment, sanitizeSlug(tenant.orgId),
                               sanitizeSlug(tenant.projectId)>>)
  ELSE PathJoin(BaseDir \o <<TenantsSegment, sanitizeSlug(tenant.orgId)>>)

NoPaths == [op |-> "none", value |-> <<>>, slug |-> <<>>, twice |-> <<>>,
            tenant |-> NoTenantContext, dir |-> <<>>]

\* sanitizeSlug(value), and sanitizeSlug of its result
SlugSanitized ==
  \E value \in Ids :
    paths' = [NoPaths EXCEPT !.op = "sanitizeSlug", !.value = value,
                             !.slug = sanitizeSlug(value),
                             !.twice = sanitizeSlug(sanitizeSlug(value))]

\* resolveTenantStateDir(tenant, env)
TenantStateDirResolved ==
  \E tenant \in TenantContexts \cup {NoTenantContext} :
    paths' = [NoPaths EXCEPT !.op = "resolveTenantStateDir", !.tenant = tenant,
                             !.dir = resolveTenantStateDir(tenant)]

PathsIdle == paths = NoPaths

InitPaths == paths = NoPaths

EdgeIdle == OriginIdle /\ AuthIdle /\ TunnelIdle /\ PathsIdle

ReporterIdle ==
  /\ queue = <<>>
  /\ flushTimer = FALSE
  /\ timers = <<>>
  /\ currentIamConfig = FALSE
  /\ flushes = {}
  /\ nextRecord = InitBacklog + 1
  /\ shutdownPc = "idle"

NextReporter ==
  \/ reportUsage /\ UNCHANGED notReporter
  \/ FlushTimerFires /\ UNCHANGED notReporter
  \/ FlushCalled /\ UNCHANGED notReporter
  \/ configureUsageReporter /\ UNCHANGED notReporter
  \/ (\E f \in flushes : PostResolves(f)) /\ UNCHANGED notReporter
  \/ (\E f \in flushes : PostRejects(f)) /\ UNCHANGED notReporter
  \/ ShutdownCalled /\ UNCHANGED notReporter
  \/ ShutdownLoop /\ UNCHANGED notReporter
  \/ ShutdownResumes /\ UNCHANGED notReporter

InitSpecReporter == InitReporter /\ BillingIdle /\ TenantIdle /\ ChatIdle /\ EdgeIdle

SpecReporter == InitSpecReporter /\ [][NextReporter]_vars

NextBilling ==
  \/ (\E p \in Callers : CallGetBalance(p)) /\ UNCHANGED notBilling
  \/ (\E p \in Callers : CallGetSubscriptionStatus(p)) /\ UNCHANGED notBilling
  \/ (\E p \in Callers : CallGetPlan(p)) /\ UNCHANGED notBilling
  \/ (\E p \in Callers : BalanceSettles(p)) /\ UNCHANGED notBilling
  \/ (\E p \in Callers : SubscriptionsSettle(p)) /\ UNCHANGED notBilling
  \/ (\E p \in Callers : PlanSettles(p)) /\ UNCHANGED notBilling
  \/ (\E p \in Callers : Return(p)) /\ UNCHANGED notBilling
  \/ Tick /\ UNCHANGED notBilling

InitSpecBilling == InitBilling /\ ReporterIdle /\ TenantIdle /\ ChatIdle /\ EdgeIdle

SpecBilling == InitSpecBilling /\ [][NextBilling]_vars

NextGate ==
  \/ (\E p \in GateCallers : CallGate(p)) /\ UNCHANGED notBilling
  \/ (\E p \in GateCallers : BalanceSettles(p)) /\ UNCHANGED notBilling
  \/ (\E p \in GateCallers : SubscriptionsSettle(p)) /\ UNCHANGED notBilling
  \/ (\E p \in GateCallers : PlanSettles(p)) /\ UNCHANGED notBilling
  \/ (\E p \in GateCallers : Return(p)) /\ UNCHANGED notBilling
  \/ Tick /\ UNCHANGED notBilling

InitSpecGate == InitGate /\ ReporterIdle /\ TenantIdle /\ ChatIdle /\ EdgeIdle

SpecGate == InitSpecGate /\ [][NextGate]_vars

NextTenant ==
  \/ HttpRequestArrives /\ UNCHANGED notTenant
  \/ WsConnectArrives /\ UNCHANGED notTenant
  \/ AuthFails /\ UNCHANGED notTenant
  \/ AuthPassesWithoutIdentity /\ UNCHANGED notTenant
  \/ HttpAuthPasses /\ UNCHANGED notTenant
  \/ WsAuthPasses /\ UNCHANGED notTenant
  \/ TenantScopes /\ UNCHANGED notTenant
  \/ ConnectionEnds /\ UNCHANGED notTenant

InitSpecTenant == InitTenant /\ ReporterIdle /\ BillingIdle /\ ChatIdle /\ EdgeIdle

SpecTenant == InitSpecTenant /\ [][NextTenant]_vars

NextChat ==
  \/ ChatRequestArrives
  \/ BalanceSettles("c1") /\ UNCHANGED <<reporterVars, tenantVars, chatVars, edgeVars>>
  \/ SubscriptionsSettle("c1") /\ UNCHANGED <<reporterVars, tenantVars, chatVars, edgeVars>>
  \/ PlanSettles("c1") /\ UNCHANGED <<reporterVars, tenantVars, chatVars, edgeVars>>
  \/ GateReturns
  \/ AssistantEvent
  \/ LifecycleEvent
  \/ ClientDisconnects
  \/ RunReturns
  \/ RunThrows
  \/ StreamRunReturns
  \/ StreamRunThrows

InitSpecChat == InitChat /\ InitGate /\ ReporterIdle /\ TenantIdle /\ EdgeIdle

SpecChat == InitSpecChat /\ [][NextChat]_vars

NextOrigin ==
  \/ (\E origin \in RuntimeOrigins : addRuntimeAllowedOrigin(origin)) /\ UNCHANGED notOrigin
  \/ (\E origin \in RuntimeOrigins : removeRuntimeAllowedOrigin(origin)) /\ UNCHANGED notOrigin
  \/ clearRuntimeAllowedOrigins /\ UNCHANGED notOrigin
  \/ BrowserOriginChecked /\ UNCHANGED notOrigin
  \/ handleIamOAuthHttpRequest /\ UNCHANGED notOrigin

InitSpecOrigin ==
  /\ InitOrigin /\ ReporterIdle /\ BillingIdle /\ TenantIdle /\ ChatIdle
  /\ AuthIdle /\ TunnelIdle /\ PathsIdle

SpecOrigin == InitSpecOrigin /\ [][NextOrigin]_vars

NextRuntimeOrigins ==
  \/ (\E origin \in RuntimeOrigins : AddCalled(origin)) /\ UNCHANGED notRuntimeOrigins
  \/ (\E origin \in RuntimeOrigins : RemoveCalled(origin)) /\ UNCHANGED notRuntimeOrigins
  \/ ClearCalled /\ UNCHANGED notRuntimeOrigins

InitSpecRuntimeOrigins ==
  /\ InitOrigin /\ ReporterIdle /\ BillingIdle /\ TenantIdle /\ ChatIdle
  /\ AuthIdle /\ TunnelIdle /\ PathsIdle

SpecRuntimeOrigins == InitSpecRuntimeOrigins /\ [][NextRuntimeOrigins]_vars

NextAuth ==
  \/ AuthorizeConnect /\ UNCHANGED notAuth

InitSpecAuth ==
  /\ InitAuth /\ ReporterIdle /\ BillingIdle /\ TenantIdle /\ ChatIdle
  /\ OriginIdle /\ TunnelIdle /\ PathsIdle

SpecAuth == InitSpecAuth /\ [][NextAuth]_vars

NextEndpoint ==
  \/ EndpointRequestArrives /\ UNCHANGED notAuth
  \/ EndpointAuthorized /\ UNCHANGED notAuth
  \/ EndpointBodyRead /\ UNCHANGED notAuth
  \/ EndpointHandlerReturns /\ UNCHANGED notAuth

InitSpecEndpoint ==
  /\ InitAuth /\ ReporterIdle /\ BillingIdle /\ TenantIdle /\ ChatIdle
  /\ OriginIdle /\ TunnelIdle /\ PathsIdle

SpecEndpoint == InitSpecEndpoint /\ [][NextEndpoint]_vars

NextTunnel ==
  \/ startGatewayTunnel /\ UNCHANGED notTunnel
  \/ ProviderChecked /\ UNCHANGED notTunnel
  \/ AuthTokenCommandSettles /\ UNCHANGED notTunnel
  \/ StartupTimeout /\ UNCHANGED notTunnel
  \/ ChildOutput /\ UNCHANGED notTunnel
  \/ NgrokErrorOutput /\ UNCHANGED notTunnel
  \/ ChildEnds /\ UNCHANGED notTunnel
  \/ TunnelStop /\ UNCHANGED notTunnel
  \/ StopTimeout /\ UNCHANGED notTunnel
  \/ TunnelForgotten /\ UNCHANGED notTunnel

InitSpecTunnel ==
  /\ InitTunnel /\ ReporterIdle /\ BillingIdle /\ TenantIdle /\ ChatIdle
  /\ OriginIdle /\ AuthIdle /\ PathsIdle

SpecTunnel == InitSpecTunnel /\ [][NextTunnel]_vars

NextPaths ==
  \/ SlugSanitized /\ UNCHANGED notPaths
  \/ TenantStateDirResolved /\ UNCHANGED notPaths

InitSpecPaths ==
  /\ InitPaths /\ ReporterIdle /\ BillingIdle /\ TenantIdle /\ ChatIdle
  /\ OriginIdle /\ AuthIdle /\ TunnelIdle

SpecPaths == InitSpecPaths /\ [][NextPaths]_vars

\* The event loop runs every continuation that is ready: a pending fetch
\* settles (it is aborted after 10 s at the latest), an armed timer fires and
\* the shutdown loop takes its next step.  Callers (reportUsage,
\* configureUsageReporter, flushUsageQueue, shutdownUsageReporter) need not call.
FairSpecReporter ==
  /\ SpecReporter
  /\ WF_vars(ShutdownLoop /\ UNCHANGED notReporter)
  /\ WF_vars(ShutdownResumes /\ UNCHANGED notReporter)
  /\ WF_vars(FlushTimerFires /\ UNCHANGED notReporter)
  /\ WF_vars((\E f \in flushes : PostResolves(f) \/ PostRejects(f)) /\ UNCHANGED notReporter)

----------------------------------------------------------------------------
(* Claims about the tenant resolver *)

\* C3: an admitted request or connection that carries a tenant context has
\* tenant.orgId among identity.orgIds, whatever orgId the connect parameters
\* asked for; a resolved context whose orgId is not among them is rejected
\* with 'tenant_org_not_member' and never scopes billing or state.
C3_TenantOrgIsMember ==
  LET member(orgId) == \E i \in 1..Len(connection.iamResult.orgIds) :
                         connection.iamResult.orgIds[i] = orgId
  IN /\ (connection.pc \in {"accepted", "serving"} /\ connection.tenant.present) =>
          connection.iamResult.ok /\ member(connection.tenant.orgId)
     /\ (connection.resolved.present /\ ~member(connection.resolved.orgId)) =>
          /\ connection.pc = "rejected"
          /\ connection.reason = "tenant_org_not_member"
          /\ ~connection.tenant.present
     /\ connection.scopedOrg # Undefined => member(connection.scopedOrg)

\* C3 witness: a connect frame asked for an org the identity is not a member
\* of and was rejected.
C3_Witness ==
  /\ connection.pc = "rejected"
  /\ connection.requested = "c"
  /\ connection.iamResult.ok /\ Len(connection.iamResult.orgIds) > 0
  /\ connection.reason = "tenant_org_not_member"

----------------------------------------------------------------------------
(* Claims about the billing gate *)

LookupRaised(c) == \E i \in 1..Len(c.log) : ~c.log[i].ok

\* C1: checkBillingAllowance fails closed: a call with iamConfig and tenant
\* present in which the balance lookup or the subscription lookup (its nested
\* plan lookup included) raised returns denied with reason 'Billing service
\* unavailable'; it is never allowed.
C1_GateFailsClosed ==
  \A p \in DOMAIN callers :
    LET c == callers[p] IN
      (c.op = "gate" /\ c.pc = "done" /\ c.cfg /\ c.tenant.present /\ LookupRaised(c))
        => c.result = Denied(REASON_UNAVAILABLE)

----------------------------------------------------------------------------
(* Claims about the billing cache and client *)

ReturnedFromCache(c) ==
  c.op \in {"getBalance", "getSubscriptionStatus", "getPlan"} /\ c.pc = "done"
    /\ c.result.kind = "value" /\ c.result.fromCache

\* C6: every value returned from the subscription, plan or balance cache, a
\* plan embedded in a cached subscription status included, was fetched from
\* the commerce back end at most 60 s before the read.
C6_CachedValuesFresh ==
  \A p \in DOMAIN callers :
    LET c == callers[p] IN
      ReturnedFromCache(c) =>
        /\ now - c.result.value.at <= CACHE_TTL_MS
        /\ (c.op = "getSubscriptionStatus" /\ c.result.value.plan # NoPlan) =>
             now - c.result.value.plan.at <= CACHE_TTL_MS

AwaitedKey(c) ==
  CASE c.pc = "balance" -> BalanceKey(BalanceId(c), c.tok)
    [] c.pc = "subscriptions" -> SubscriptionKey(SubscriptionId(c), c.tok)
    [] c.pc = "plan" -> PlanKey(c.planId, c.tok)
    [] OTHER -> ""

\* C7: at most one back-end request is in flight per cache key: two callers
\* of getBalance, getPlan or getSubscriptionStatus never both await a fetch
\* for the same key.
C7_SingleFlight ==
  \A p, q \in DOMAIN callers :
    (p # q /\ callers[p].pc \in {"balance", "subscriptions", "plan"}
           /\ callers[p].pc = callers[q].pc)
      => AwaitedKey(callers[p]) # AwaitedKey(callers[q])

\* C8: a value returned from the cache was fetched on behalf of the very
\* (identifier, token) pair the call was made with.
C8_NoLeakAcrossCallers ==
  \A p \in DOMAIN callers :
    LET c == callers[p] IN
      ReturnedFromCache(c) => c.result.value.for = <<c.id, c.tok>>

----------------------------------------------------------------------------
(* Claims about the chat adapter *)

\* C4, for the requests that carry a tenant: for every accepted chat request
\* whose run returned, streaming or not, in whatever order the lifecycle end
\* event and the run's completion arrived, a usage record was enqueued by
\* reportUsage or the run's inputTokens + outputTokens is 0.  (Without a
\* tenant neither path reports: both test `tenant &&` first.)
C4_UsageReported ==
  (chat.accepted /\ chat.tenant.present /\ chat.returned
     /\ chat.usage.input + chat.usage.output > 0)
    => Len(queue) > 0

DoneFrames == {i \in 1..Len(chat.frames) : chat.frames[i] = DoneFrame}

\* C5 as claimed: a streaming response that is closed, by whichever of
\* lifecycle end/error, run completion, run exception or client disconnect,
\* holds exactly one 'data: [DONE]' frame, and it is the last frame.
C5_ExactlyOneDone ==
  (chat.stream /\ chat.closed) =>
    /\ Cardinality(DoneFrames) = 1
    /\ chat.frames[Len(chat.frames)] = DoneFrame

\* C5 as amended: a streaming response holds at most one 'data: [DONE]' frame
\* and no frame after it; a stream closed by a lifecycle end/error event, by
\* the run's completion or by its exception holds exactly one, and a stream
\* the client's disconnect closed first holds none.
C5_AtMostOneDone ==
  chat.stream =>
    /\ Cardinality(DoneFrames) <= 1
    /\ \A i \in DoneFrames : i = Len(chat.frames)
    /\ ~chat.closed => DoneFrames = {}
    /\ chat.closed => (Cardinality(DoneFrames) = 1 <=> ~chat.abandoned)

\* C5 witness: after assistant events the run threw; the error chunk and then
\* the one [DONE] frame were written.
C5_Witness ==
  /\ chat.stream /\ chat.closed /\ chat.deltas > 0
  /\ Len(chat.frames) >= 2
  /\ chat.frames[Len(chat.frames) - 1] = ErrorChunk
  /\ chat.frames[Len(chat.frames)] = DoneFrame

----------------------------------------------------------------------------
(* Claims about the usage reporter *)

\* C9: shutdownUsageReporter terminates from every reachable reporter state
\* (configured or not, any queue length, with or without flushes in flight),
\* and when it returns the usage queue is empty.
C9_ShutdownDrains ==
  /\ (shutdownPc = "check") ~> (shutdownPc = "done")
  /\ [][shutdownPc # "done" /\ shutdownPc' = "done" => queue' = <<>>]_vars

\* The queue a flush of this step works on: reportUsage pushes its record first.
QueueBeforeFlush == IF nextRecord' = nextRecord THEN queue ELSE Append(queue, nextRecord)

\* The flushes that took their batch in this step, and those that returned in it.
StartedFlushes == {f \in flushes' : ~\E g \in flushes : g.batch = f.batch}
EndedFlushes == {g \in flushes : ~\E f \in flushes' : f.batch = g.batch}

FlushEntered ==
  \/ FlushCalled
  \/ FlushTimerFires
  \/ ShutdownLoop /\ Len(queue) > 0
  \/ nextRecord' = nextRecord + 1 /\ Len(queue) + 1 >= MAX_BATCH_SIZE

SucceededFlushes == {f \in flushes \ flushes' : f.idx = Len(f.batch)}

\* C12 as stated: while a flush is in progress the queue length never
\* increases, and a successful flush of N records leaves at most
\* (length before the flush) - N entries in the queue.
C12_QueueNeverGrowsDuringFlush ==
  [][/\ flushes # {} => Len(queue') <= Len(queue)
     /\ \A f \in SucceededFlushes : Len(queue') <= f.before - Len(f.batch)
    ]_vars

\* C12 amended: taking the batch shortens the queue by N in one step and no
\* later step of a flush (a POST resolving or rejecting) changes the queue;
\* while a flush is in progress the queue grows only by reportUsage, one
\* record at the tail per call, so a successful flush of N records leaves at
\* most (length before) - N + (records reported since it started) entries.
C12_OnlyReportsGrowQueue ==
  [][/\ \A f \in StartedFlushes :
          /\ f.before = Len(QueueBeforeFlush)
          /\ Len(queue') = f.before - Len(f.batch)
     /\ (flushes # {} /\ Len(queue') > Len(queue)) =>
          /\ nextRecord' = nextRecord + 1
          /\ queue' = Append(queue, nextRecord)
     /\ (flushes' # flushes /\ StartedFlushes = {}) => queue' = queue
     /\ \A f \in SucceededFlushes :
          Len(queue') <= f.before - Len(f.batch) + (nextRecord - f.batch[1] - f.before)
    ]_vars

\* C12 witness: a flush is awaiting its posts and the queue holds a record
\* that was reported after the flush took its batch.
C12_Witness ==
  \E f \in flushes :
    /\ Len(queue) > 0
    /\ queue[Len(queue)] > f.batch[Len(f.batch)]
    /\ Len(queue) > f.before - Len(f.batch)

\* C13 as stated: usage batches are sent serially, at no time are two flushes
\* posting concurrently, and records are posted in the order in which they
\* were reported: a record in flight is older than every taken record that
\* is still to be posted.
C13_FlushesSerial ==
  /\ Cardinality(flushes) <= 1
  /\ \A f, g \in flushes :
       \A i \in (f.idx + 1)..Len(f.batch) : f.batch[i] > g.batch[g.idx]

\* C13 amended: the posts of one flush are serial and FIFO, one POST in flight
\* per flush, for the records of its batch in report order, each record in
\* one batch only; two flushes may post concurrently, so the order across
\* flushes is not guaranteed.
C13_SerialWithinFlush ==
  /\ [](\A f \in flushes :
          /\ f.idx \in 1..Len(f.batch)
          /\ \A i \in 1..(Len(f.batch) - 1) : f.batch[i] < f.batch[i + 1]
          /\ \A g \in flushes \ {f} :
               \/ f.batch[Len(f.batch)] < g.batch[1]
               \/ g.batch[Len(g.batch)] < f.batch[1])
  /\ [][\A f \in flushes : \A g \in flushes' :
          g.batch = f.batch => g.idx \in {f.idx, f.idx + 1}]_vars

\* C13 witness: two flushes are in flight; the later one has posted its first
\* record while the earlier one still has records to post.
C13_Witness ==
  \E f, g \in flushes :
    /\ f.idx < Len(f.batch)
    /\ g.idx > 1
    /\ g.batch[1] > f.batch[Len(f.batch)]

\* C14: until configureUsageReporter has been called the reporter is a no-op:
\* no step posts anything to the back end, and reportUsage and flushUsageQueue
\* leave the queue and the flush timer as they were.
C14_NoOpUntilConfigured ==
  [][~currentIamConfig =>
       /\ flushes' = {}
       /\ queue' = queue
       /\ flushTimer' = flushTimer
       /\ timers' = timers]_vars

\* The non-empty texts among the assistant deltas that the run has emitted, in
\* emission order, and the positions of the role chunks in the response.
EmittedTexts == SelectSeq(chat.emitted, HasText)
RoleFrames == {i \in 1..Len(chat.frames) : chat.frames[i] = RoleChunk}

\* C15: when the run has emitted assistant deltas d1..dn (n >= 1, non-empty
\* text) and then the lifecycle end, the frames written are one role chunk,
\* one content chunk per delta in emission order, and "data: [DONE]"; a role
\* chunk is never written twice and never after a content chunk.
C15_StreamFrames ==
  chat.stream =>
    /\ Cardinality(RoleFrames) <= 1
    /\ \A i \in RoleFrames : i = 1
    /\ (chat.pc = "run" /\ chat.closed /\ ~chat.abandoned /\ Len(EmittedTexts) >= 1) =>
         chat.frames = <<RoleChunk>>
                       \o [i \in 1..Len(EmittedTexts) |-> ContentChunk(EmittedTexts[i])]
                       \o <<DoneFrame>>

\* C15 witness: two deltas with different texts were forwarded and the
\* lifecycle end closed the stream while the run call had not returned.
C15_Witness ==
  /\ chat.pc = "run" /\ chat.closed /\ ~chat.abandoned
  /\ Len(chat.frames) = 4
  /\ chat.frames[2].content # chat.frames[3].content
  /\ chat.frames[4] = DoneFrame

\* C16: once the client has disconnected during a streaming response, no
\* further frame is written and the response is not ended by any later delta,
\* lifecycle event, run completion or run exception; the disconnect itself
\* does not end or cancel the agent run.
C16_NoFrameAfterDisconnect ==
  [][/\ chat.disconnected =>
          /\ chat'.frames = chat.frames
          /\ chat'.ended = chat.ended
          /\ chat'.disconnected
     /\ (~chat.disconnected /\ chat'.disconnected) =>
          /\ chat'.pc = chat.pc
          /\ chat'.returned = chat.returned
          /\ chat'.frames = chat.frames
    ]_vars

\* C16 witness: the client went away after two frames, the run then returned
\* and nothing more was written.
C16_Witness ==
  /\ chat.abandoned /\ chat.disconnected
  /\ chat.pc = "done" /\ chat.returned
  /\ Len(chat.frames) = 2
  /\ chat.frames[2] # DoneFrame
  /\ ~chat.ended

\* C17: when the run of a streaming request has completed without any
\* assistant delta having been forwarded and the client is still connected,
\* the response holds a role chunk and a content chunk built from the joined
\* payload texts before "data: [DONE]", whether the lifecycle end was
\* delivered before or after the run call returned.
C17_SyntheticChunk ==
  (/\ chat.stream /\ chat.pc = "done" /\ chat.returned
   /\ ~chat.disconnected
   /\ EmittedTexts = <<>>) =>
     \E payloads \in Payloads :
       chat.frames = <<RoleChunk, ContentChunk(JoinPayloads(payloads)), DoneFrame>>

\* a step in which the run call of a streaming request throws
RunThrew == chat.stream /\ chat.pc = "run" /\ chat'.pc = "done" /\ ~chat'.returned

\* C18: when the run of a streaming request throws while the client is
\* connected and the stream has not been terminated, the adapter writes one
\* chunk with content "Error: internal error", emits one lifecycle event of
\* phase "error", and the stream ends with "data: [DONE]", closed and
\* unsubscribed.
C18_RunErrorTerminates ==
  [][(RunThrew /\ ~chat.closed) =>
       /\ chat'.frames = chat.frames \o <<ErrorChunk, DoneFrame>>
       /\ chat'.lifecycleErrors = chat.lifecycleErrors + 1
       /\ chat'.closed /\ chat'.ended /\ ~chat'.subscribed
    ]_vars

\* C18 witness: after a delta was forwarded the run threw; the error chunk and
\* [DONE] follow the delta and the lifecycle error was emitted.
C18_Witness ==
  /\ chat.stream /\ chat.pc = "done" /\ ~chat.returned
  /\ chat.lifecycleErrors = 1
  /\ Len(chat.frames) = 4
  /\ chat.frames[3] = ErrorChunk
  /\ chat.frames[4] = DoneFrame
  /\ chat.closed /\ chat.ended

\* C19: the event-bus subscription of a streaming request is removed on every
\* terminating path: closed = true implies that the subscription no longer
\* exists, and so does a handled terminal lifecycle event, a client
\* disconnect and the end of the run task; only a running streaming request
\* is subscribed.
C19_Unsubscribed ==
  /\ chat.closed => ~chat.subscribed
  /\ chat.disconnected => ~chat.subscribed
  /\ chat.pc = "done" => ~chat.subscribed
  /\ (chat.stream /\ chat.runId /\ chat.pc = "done") => chat.closed
  /\ chat.subscribed => chat.stream /\ chat.pc = "run" /\ chat.runId

\* C19 witness: a terminal lifecycle event closed the stream and removed the
\* subscription while the run call is still pending and the client connected.
C19_Witness ==
  /\ chat.stream /\ chat.pc = "run"
  /\ chat.closed /\ ~chat.subscribed /\ ~chat.disconnected
  /\ chat.frames[Len(chat.frames)] = DoneFrame

\* C20: when the billing gate denies a chat-completion request the response
\* is HTTP 402 with error type "billing_error" and the gate's reason as
\* message; no run id is minted, no agent run is started, no event
\* subscription is created, nothing is streamed and no usage record is
\* enqueued.  A 402 is sent for no other reason.
C20_DeniedIs402 ==
  /\ chat.billing.kind = "denied" =>
       /\ chat.status = 402 /\ chat.ended /\ chat.pc = "done"
       /\ chat.errorType = "billing_error"
       /\ chat.message = chat.billing.reason
       /\ chat.message \in {REASON_UNAVAILABLE, REASON_INSUFFICIENT,
                            REASON_NOT_ACTIVE, REASON_NO_SUBSCRIPTION}
       /\ ~chat.runId /\ ~chat.accepted /\ ~chat.returned
       /\ ~chat.subscribed /\ chat.frames = <<>> /\ chat.emitted = <<>>
       /\ queue = <<>> /\ nextRecord = InitBacklog + 1 /\ flushes = {} /\ timers = <<>>
  /\ chat.status = 402 => chat.billing.kind = "denied"

\* C20 witness: a streaming request with a prompt was denied for insufficient
\* funds and answered 402.
C20_Witness ==
  /\ chat.billing.kind = "denied"
  /\ chat.stream /\ chat.hasPrompt
  /\ chat.status = 402
  /\ chat.message = REASON_INSUFFICIENT

\* C21: a chat-completion request whose messages produce an empty prompt is
\* answered with HTTP 400 and error type "invalid_request_error", for every
\* tenant and billing state, and no agent run is started for it.
C21_EmptyPromptIs400 ==
  (chat.pc \notin {"idle", "gate"} /\ buildAgentPrompt(chat.messages).message = "") =>
    /\ chat.status = 400
    /\ chat.errorType = "invalid_request_error"
    /\ ~chat.runId /\ ~chat.accepted /\ ~chat.returned

\* the payload texts that are not empty
PayloadTexts(payloads) == SelectSeq(payloads, HasText)

\* C22: the content of a non-streaming response is the non-empty payload
\* texts joined with a blank line, and the fallback string whenever there is
\* no non-empty payload text; finish_reason is "stop".
C22_ContentOrFallback ==
  (~chat.stream /\ chat.status = 200) =>
    /\ chat.content = IF PayloadTexts(chat.payloads) = <<>>
                        THEN "No response from Hanzo Bot."
                        ELSE Join(PayloadTexts(chat.payloads))
    /\ chat.finish_reason = "stop"

----------------------------------------------------------------------------
(* Claims about the origin policy *)

\* an Origin header that is absent, empty, the literal null or unparsable
OriginUnusable(origin) ==
  \/ origin = Undefined
  \/ Trim(origin) \in {"", "null"}
  \/ ~NewURL(Trim(origin)).valid

\* the origin of the header in lower case, and its authority and hostname
LoweredOrigin(origin) == ToLowerCase(NewURL(Trim(origin)).origin)
Authority(origin) == ToLowerCase(NewURL(Trim(origin)).host)
HostnameOf(origin) == ToLowerCase(NewURL(Trim(origin)).hostname)

\* the allow-list as the set of its trimmed, lower-cased entries
AllowedSet(allowedOrigins) == {ToLowerCase(Trim(e)) : e \in Range(allowedOrigins)}

\* C23: checkBrowserOrigin denies with "origin missing or invalid" when the
\* origin is absent, empty, the literal null or unparsable, whatever the
\* allow-list and the runtime allow-set hold; otherwise it allows exactly when
\* the lower-cased origin is in the allow-list or in the runtime allow-set, or
\* its authority is the normalized request host, or the hostnames of origin
\* and request are both loopback; else it denies with "origin not allowed".
C23_OriginDecision ==
  browser.op = "check" =>
    browser.result =
      IF OriginUnusable(browser.origin) THEN OriginDenied("origin missing or invalid")
      ELSE IF \/ LoweredOrigin(browser.origin) \in AllowedSet(browser.allowedOrigins)
              \/ LoweredOrigin(browser.origin) \in browser.runtime
              \/ /\ normalizeHostHeader(browser.requestHost) # ""
                 /\ Authority(browser.origin) = normalizeHostHeader(browser.requestHost)
              \/ /\ HostnameOf(browser.origin) \in {"localhost", "127.0.0.1", "::1"}
                 /\ resolveHostName(normalizeHostHeader(browser.requestHost))
                      \in {"localhost", "127.0.0.1", "::1"}
        THEN OriginOk
      ELSE OriginDenied("origin not allowed")

\* C23 witness: origin http://127.0.0.1:3000 with host localhost:18789 and an
\* allow-list that does not hold it is allowed by the loopback rule.
C23_Witness ==
  /\ browser.op = "check"
  /\ browser.origin = "http://127.0.0.1:3000"
  /\ browser.requestHost = "localhost:18789"
  /\ browser.allowedOrigins = <<"https://app.example">>
  /\ browser.runtime = {}
  /\ browser.result = OriginOk

\* Texts that differ in letter case only.
CaseGroups ==
  { {"https://app.example", "HTTPS://APP.EXAMPLE"},
    {" https://app.example ", " HTTPS://APP.EXAMPLE "},
    {"https://tunnel.example", "HTTPS://Tunnel.Example"},
    {" https://tunnel.example", " HTTPS://Tunnel.Example"},
    {"null", "NULL"} }
CaseVariants(text) == {text} \cup UNION {g \in CaseGroups : text \in g}

\* The allow-lists obtained from a list by permuting it and changing the
\* letter case of its entries.
ListVariants(list) ==
  { [i \in 1..Len(list) |-> entries[pi[i]]] :
      pi \in Permutations(1..Len(list)),
      entries \in {e \in [1..Len(list) -> UNION {CaseVariants(list[i]) : i \in 1..Len(list)}] :
                     \A i \in 1..Len(list) : e[i] \in CaseVariants(list[i])} }

\* C24: the decision of checkBrowserOrigin does not change when the letter
\* case of the request origin or of an allow-list entry is changed or the
\* allow-list is permuted, and adding an origin to the runtime allow-set in
\* another letter case gives the same set.
C24_CaseAndOrderInsensitive ==
  /\ browser.op = "check" =>
       \A origin \in CaseVariants(browser.origin) :
         \A allowedOrigins \in ListVariants(browser.allowedOrigins) :
           checkBrowserOrigin(browser.requestHost, origin, allowedOrigins, browser.runtime)
             = browser.result
  /\ \A origin \in RuntimeOrigins : \A other \in CaseVariants(origin) :
       /\ runtimeAllowedOrigins \cup {ToLowerCase(Trim(other))}
            = runtimeAllowedOrigins \cup {ToLowerCase(Trim(origin))}
       /\ runtimeAllowedOrigins \ {ToLowerCase(Trim(other))}
            = runtimeAllowedOrigins \ {ToLowerCase(Trim(origin))}
  /\ \A entry \in runtimeAllowedOrigins : \A other \in CaseVariants(entry) :
       ToLowerCase(other) = entry

\* C24 witness: the origin in upper case was allowed by an allow-list of two
\* entries that holds it in lower case at the second place.
C24_Witness ==
  /\ browser.op = "check"
  /\ browser.origin = "HTTPS://APP.EXAMPLE"
  /\ browser.allowedOrigins = <<"https://evil.example", "https://app.example">>
  /\ browser.requestHost = "gateway"
  /\ browser.runtime = {"https://tunnel.example"}
  /\ browser.result = OriginOk

\* C25: the CORS preflight of an /auth/* endpoint is answered with 204, and
\* the Access-Control-Allow-Origin it carries names the request's origin only
\* if checkBrowserOrigin allows that origin; an origin that the policy denies
\* is not echoed back, and not together with Allow-Credentials: true.
C25_PreflightFollowsPolicy ==
  (browser.op = "oauth" /\ browser.handled /\ browser.method = "OPTIONS") =>
    /\ browser.statusCode = 204
    /\ (browser.origin # Undefined /\ browser.allowOrigin = browser.origin) =>
         checkBrowserOrigin(browser.requestHost, browser.origin, browser.allowedOrigins,
                            browser.runtime).ok

----------------------------------------------------------------------------
(* Further claims about the tenant resolver *)

\* C26: resolveTenantContext takes the orgId of the connect parameters if one
\* is supplied, else the identity's currentOrgId, else the first of its
\* orgIds; it returns null only when none of the three provides an org, and
\* a tenant it returns carries the identity's userId.
C26_TenantPriority ==
  connection.iamResult.ok =>
    /\ connection.resolved.present =>
         /\ connection.resolved.orgId =
              IF connection.requested # Undefined THEN connection.requested
              ELSE IF connection.iamResult.currentOrgId # Undefined
                THEN connection.iamResult.currentOrgId
              ELSE First(connection.iamResult.orgIds)
         /\ connection.resolved.userId = connection.iamResult.userId
    /\ ~connection.resolved.present =>
         /\ connection.requested \in {Undefined, ""}
         /\ connection.iamResult.currentOrgId = Undefined
         /\ connection.iamResult.orgIds = <<>>

----------------------------------------------------------------------------
(* Further claims about the usage reporter *)

\* C38: usage records are never stranded: whenever the queue is non-empty, a
\* flush timer is armed or a flush that will take the queued records is
\* underway (the shutdown loop, which flushes until the queue is empty), so
\* that every record is removed without a further reportUsage or shutdown.
C38_NeverStranded ==
  Len(queue) > 0 => flushTimer \/ shutdownPc \in {"check", "await"}

----------------------------------------------------------------------------
(* Further claims about the billing client *)

\* C33: getPlan caches a 404 of the commerce back end as a null entry, so that
\* a second lookup of the key within the TTL returns null without a request;
\* every other non-2xx response raises and caches nothing: a null plan, cached
\* or returned by getPlan, always stems from a 404.
C33_Only404IsNull ==
  /\ \A key \in DOMAIN planCache :
       planCache[key].value.null => planCache[key].value.status = "404"
  /\ \A p \in DOMAIN callers :
       LET c == callers[p] IN
       (c.op = "getPlan" /\ c.pc = "done" /\ c.result.kind = "value"
          /\ c.result.value.null) => c.result.value.status = "404"

----------------------------------------------------------------------------
(* Claims about the connection authorizer *)

\* the shared secret of the call's mode: the configured one, the supplied one
ConfiguredSecret ==
  IF authCall.auth.mode = "token" THEN authCall.auth.token ELSE authCall.auth.password
SuppliedSecret ==
  IF authCall.auth.mode = "token" THEN authCall.connectAuth.token
                                  ELSE authCall.connectAuth.password

\* the call was decided by the shared secret: the limiter did not lock the
\* source out and the mesh identity was not accepted
DecidedBySecret ==
  /\ authCall.made
  /\ ~authCall.limited
  /\ authCall.result.method # "tailscale"

AuthDecisions ==
  {AuthOk(method, user) : method \in {"token", "password", "tailscale"},
                          user \in {Undefined, "peter"}}
  \cup {AuthFail(reason) :
          reason \in {"rate_limited", "unauthorized",
                      "token_missing_config", "token_missing", "token_mismatch",
                      "password_missing_config", "password_missing", "password_mismatch"}}

C28_MeshFallback ==
  (authCall.made /\ ~authCall.limited) =>
    /\ ( /\ authCall.auth.allowTailscale
         /\ authCall.auth.mode = "token"
         /\ ~authCall.connectAuth.present
         /\ authCall.req = MeshReq ) =>
         authCall.result = AuthOk("tailscale", authCall.req.login)
    /\ ( /\ authCall.auth.allowTailscale
         /\ authCall.auth.mode = "token"
         /\ authCall.auth.token # Undefined
         /\ authCall.connectAuth.token = authCall.auth.token
         /\ authCall.req = ServeHostReq ) =>
         authCall.result = AuthOk("token", Undefined)
    /\ ~authCall.auth.allowTailscale => authCall.result.method # "tailscale"

\* a mesh login was accepted in token mode without any shared credential
C28_Witness ==
  /\ authCall.made
  /\ authCall.auth.mode = "token"
  /\ authCall.auth.allowTailscale
  /\ ~authCall.connectAuth.present
  /\ authCall.result = AuthOk("tailscale", "peter")

----------------------------------------------------------------------------
(* Claims about the POST-JSON endpoint middleware *)

IsPrefix(s, t) == Len(s) <= Len(t) /\ \A i \in 1..Len(s) : s[i] = t[i]

EndpointArrived == endpoint.pc # "idle"

\* C29: the middleware runs path match, method check, authorization and body
\* read in that order: a non-matching path returns false with nothing written;
\* a matching path with a method other than POST sends exactly one 405 and
\* returns undefined without authorizing or reading the body; a failed
\* authorization returns undefined without reading the body; the body is read
\* and returned only after a successful authorization; handleOpenAiHttpRequest
\* returns false exactly when the path does not match and true otherwise.
C29_MiddlewareOrder ==
  EndpointArrived =>
    /\ IsPrefix(endpoint.steps, <<"path", "method", "auth", "body">>)
    /\ endpoint.pathname # "/v1/chat/completions" =>
         /\ endpoint.handled = "false"
         /\ endpoint.statuses = <<>>
         /\ endpoint.steps = <<"path">>
    /\ (endpoint.pathname = "/v1/chat/completions" /\ endpoint.method # "POST") =>
         /\ endpoint.handled = "undefined"
         /\ endpoint.statuses = <<405>>
         /\ endpoint.steps = <<"path", "method">>
    /\ (Includes(endpoint.steps, "auth") /\ ~endpoint.authResult.ok) =>
         /\ endpoint.handled = "undefined"
         /\ ~Includes(endpoint.steps, "body")
    /\ Includes(endpoint.steps, "body") => endpoint.authResult.ok
    /\ endpoint.handled = "body" =>
         endpoint.steps = <<"path", "method", "auth", "body">>
    /\ endpoint.returned = "false" <=> endpoint.pathname # "/v1/chat/completions"
    /\ endpoint.pc = "done" =>
         (endpoint.returned = "true" <=> endpoint.pathname = "/v1/chat/completions")

\* a request was refused by the authorizer, and handleOpenAiHttpRequest
\* returned true without the body being read
C29_Witness ==
  /\ endpoint.pc = "done"
  /\ endpoint.steps = <<"path", "method", "auth">>
  /\ endpoint.statuses = <<401>>
  /\ endpoint.returned = "true"

----------------------------------------------------------------------------
(* Claims about the tunnel supervisor *)

\* C30: startGatewayTunnel never rejects: it returns null without spawning a
\* tunnel child when the provider is none or its binary is unavailable,
\* returns null when provider startup fails in any way (startup timeout, spawn
\* error, unexpected child exit, provider error output, failed auth-token
\* command), and returns a handle only after a public URL has been parsed.
C30_TunnelNeverRejects ==
  /\ tunnel.returned \in {"pending", "null", "handle"}
  /\ (tunnel.pc = "done" /\ tunnel.spawned = 0 /\ tunnel.failure = "") =>
       tunnel.returned = "null"
  /\ tunnel.failure # "" => tunnel.returned = "null"
  /\ tunnel.returned = "handle" => tunnel.urlParsed

\* C31: each provider startup settles exactly once, by the first of URL
\* found, 30 s timeout, spawn error and child close; when the deadline fires
\* first the child is sent SIGTERM and startup rejects with
\* "{provider} startup timed out (30s)"; after the settlement no later event
\* changes the outcome or kills the child, and the timer is cancelled on
\* every settlement other than the timeout.
C31_SettlesExactlyOnce ==
  /\ tunnel.settlements <= 1
  /\ (tunnel.spawned > 0 /\ (~tunnel.childAlive \/ tunnel.urlParsed \/ tunnel.failure # "")) =>
       tunnel.settlements = 1
  /\ tunnel.failure = "timeout" =>
       /\ tunnel.outcome = "rejected"
       /\ tunnel.kills = 1
       /\ tunnel.message = tunnel.provider \o " startup timed out (30s)"
  /\ (tunnel.outcome = "rejected" /\ tunnel.failure # "timeout") => tunnel.kills = 0
  /\ tunnel.outcome = "resolved" =>
       /\ tunnel.urlParsed
       /\ tunnel.failure = ""
       /\ tunnel.kills <= Len(tunnel.stops)
  /\ tunnel.outcome # "pending" => tunnel.timeout = 0

\* the stop() calls made while the child was running
StopsBeforeExit == {i \in 1..Len(tunnel.stops) : ~tunnel.stops[i].afterExit}

\* C32: every stop() call sends SIGTERM to the child and resolves when the
\* child closes or after 3 s, whichever comes first; a further call, also one
\* made after the child has exited, resolves in the same way and changes
\* nothing else: the startup's outcome, the handle and its URL stay as they were.
C32_StopIdempotentAndBounded ==
  /\ \A i \in 1..Len(tunnel.stops) :
       /\ tunnel.stops[i].done \/ tunnel.stops[i].timer = STOP_TIMEOUT_MS
       /\ (tunnel.exit = "close" /\ i \in StopsBeforeExit) => tunnel.stops[i].done
  /\ tunnel.stops # <<>> =>
       /\ tunnel.returned = "handle"
       /\ tunnel.outcome = "resolved"
       /\ tunnel.settlements = 1
       /\ tunnel.publicUrl # Undefined
       /\ tunnel.kills = Cardinality(StopsBeforeExit)

\* stop() was called twice, the second time after the child had closed: the
\* first call was resolved by the close, the second waits for its timer
C32_Witness ==
  /\ Len(tunnel.stops) = 2
  /\ tunnel.exit = "close"
  /\ ~tunnel.stops[1].afterExit /\ tunnel.stops[1].done /\ tunnel.stops[1].timer > 0
  /\ tunnel.stops[2].afterExit /\ ~tunnel.stops[2].done
  /\ tunnel.kills = 1

\* C39: a failed startup leaves no orphan child: whenever the provider's
\* start promise has rejected (timeout, spawn error, unexpected exit, error
\* output on stderr), the spawned child has exited or has been sent SIGTERM.
C39_NoOrphanChild ==
  (tunnel.outcome = "rejected" /\ tunnel.spawned > 0) =>
    ~tunnel.childAlive \/ tunnel.kills > 0

\* the complete URL that the child of this startup prints
PrintedUrl ==
  CASE tunnel.provider = "cloudflared" -> "https://abc.trycloudflare.com"
    [] tunnel.provider = "ngrok" -> "https://abc.ngrok.app/"
    [] tunnel.provider = "localxpose" -> "https://abc.loclx.io"
    [] tunnel.provider = "zrok" -> "https://abc.share.zrok.io"
    [] OTHER -> Undefined

\* C40: the public URL a startup resolves with does not depend on how the
\* child's output is cut into chunks: for every provider and every chunking,
\* publicUrl and publicOrigin are those of the complete URL the provider
\* printed, never of a prefix of it.
C40_ChunkingIndependent ==
  tunnel.returned = "handle" =>
    /\ tunnel.publicUrl = toWssUrl(PrintedUrl)
    /\ tunnel.publicOrigin = toOrigin(PrintedUrl)

----------------------------------------------------------------------------
(* Claims about tenant-scoped paths *)

\* C34: slug sanitation is idempotent: sanitizeSlug(sanitizeSlug(x)) =
\* sanitizeSlug(x) for every identifier x, and an identifier that matches the
\* safe pattern is returned unchanged.
C34_SanitizeIdempotent ==
  paths.op = "sanitizeSlug" =>
    /\ paths.twice = paths.slug
    /\ SAFE_SLUG_RE(paths.value) => paths.slug = paths.value

\* an identifier with a slash was escaped, and escaping the result again
\* left it as it was
C34_Witness ==
  /\ paths.op = "sanitizeSlug"
  /\ paths.value = <<"a", "/">>
  /\ paths.slug = <<"a", "_", "2", "F">>
  /\ paths.twice = paths.slug

\* C36: for every tenant context the directory that resolveTenantStateDir
\* returns lies strictly below <stateDir>/tenants/: the sanitized orgId and
\* projectId are single segments, none of them empty, "." or "..".
C36_BelowTenantsDir ==
  (paths.op = "resolveTenantStateDir" /\ paths.tenant.present) =>
    /\ Len(paths.dir) > Len(BaseDir) + 1
    /\ SubSeq(paths.dir, 1, Len(BaseDir) + 1) = BaseDir \o <<TenantsSegment>>
    /\ sanitizeSlug(paths.tenant.orgId) \notin {<<>>, <<".">>, <<".", ".">>}
    /\ sanitizeSlug(paths.tenant.projectId) \notin {<<".">>, <<".", ".">>}

\* C37: two tenant contexts with different orgId, or with the same orgId and
\* different projectId, never resolve to the same state directory.
C37_TenantDirsDistinct ==
  (paths.op = "resolveTenantStateDir" /\ paths.tenant.present) =>
    \A other \in TenantContexts :
      other # paths.tenant => resolveTenantStateDir(other) # paths.dir

----------------------------------------------------------------------------
(* Claims about the runtime allow-set *)

\* the origin a text names: its scheme and authority in lower case, without
\* surrounding whitespace; texts that name no origin have none
NamedOrigin(text) ==
  CASE text \in {"https://tunnel.example", " HTTPS://Tunnel.Example"} -> "https://tunnel.example"
    [] text \in {"https://app.example", "HTTPS://APP.EXAMPLE", " HTTPS://APP.EXAMPLE "}
         -> "https://app.example"
    [] text \in {"https://evil.example", "http://127.0.0.1:3000", "https://gateway"} -> text
    [] OTHER -> "<none>"

\* the origin was added by a call that no later call removed or cleared
AddedAndKept(named) ==
  \E i \in 1..Len(originCalls) :
    /\ originCalls[i].op = "add"
    /\ NamedOrigin(originCalls[i].origin) = named
    /\ \A j \in (i + 1)..Len(originCalls) :
         /\ originCalls[j].op # "clear"
         /\ ~(originCalls[j].op = "remove" /\ NamedOrigin(originCalls[j].origin) = named)

\* the decision of a request that only the runtime allow-set can allow: the
\* allow-list is empty and the request carries no Host header
ThroughRuntimeSet(origin) ==
  checkBrowserOrigin(Undefined, origin, <<>>, runtimeAllowedOrigins) = OriginOk

\* C35: after any sequence of addRuntimeAllowedOrigin, removeRuntimeAllowedOrigin
\* and clearRuntimeAllowedOrigins calls, the runtime allow-set lets an origin
\* through exactly when an add of that origin, in any letter case and with any
\* surrounding whitespace, was followed by no remove of that origin, in any
\* letter case and with any surrounding whitespace, and by no clear; so adding
\* twice is adding once, and after a clear the set lets no origin through.
C35_RuntimeSetFollowsCalls ==
  /\ \A origin \in OriginHeaders :
       ThroughRuntimeSet(origin) <=>
         (NamedOrigin(origin) # "<none>" /\ AddedAndKept(NamedOrigin(origin)))
  /\ (Len(originCalls) > 0 /\ originCalls[Len(originCalls)].op = "clear") =>
       \A origin \in OriginHeaders : ~ThroughRuntimeSet(origin)

\* C35 witness: the origin was added twice, once in upper case after a blank,
\* and removed once in lower case; the request from it is denied.
C35_Witness ==
  /\ originCalls = << [op |-> "add", origin |-> " HTTPS://Tunnel.Example"],
                      [op |-> "add", origin |-> "https://tunnel.example"],
                      [op |-> "remove", origin |-> "https://tunnel.example"] >>
  /\ ~ThroughRuntimeSet("https://tunnel.example")

====
